---------------------------- MODULE Spec2Model ----------------------------
(* FriendSync local data store (src/lib/db.ts, src/lib/storage.ts) and its  *)
(* pull-based sync engine (simpleSync).  The store routes every operation   *)
(* to the native SQL engine or to the fallback engine, a single document    *)
(* persisted under one key.                                                  *)
EXTENDS Integers, Sequences, FiniteSets, TLC

(***************************************************************************)
(* Bounds of the model.                                                    *)
(***************************************************************************)
MaxUser == 2          \* user ids are 1..MaxUser
MaxOps == 3           \* store calls issued by the UI in one behaviour
MaxRemote == 2        \* length of a list returned by the remote API
MaxPasses == 2        \* sync passes started in one behaviour
MaxClock == 1         \* ticks of the wall clock in one behaviour
MaxLocal == 1         \* store calls the UI issues between sync passes in one behaviour
MaxFaults == 1        \* sync passes of one behaviour in which a fetch fails

(***************************************************************************)
(* JavaScript values.  Strings keep "undefined" and "null" apart from the  *)
(* empty string; numbers use two negative sentinels.                        *)
(***************************************************************************)
Undef == "undefined"
Null == "null"
UndefNum == -1
NullNum == -2
NoCounter == 0        \* __meta__.nextId[table] == null

Tables == {"users", "friends", "rsvps", "user_prefs", "events", "notifications"}
UserIds == 1..MaxUser

\* a ?? b on strings and on numbers
Coalesce(a, b) == IF a = Undef \/ a = Null THEN b ELSE a
CoalesceNum(a, b) == IF a = UndefNum \/ a = NullNum THEN b ELSE a
\* a || b on strings: the empty string is falsy too
OrElse(a, b) == IF a = Undef \/ a = Null \/ a = "" THEN b ELSE a

Max(S) == IF S = {} THEN 0 ELSE CHOOSE x \in S : \A y \in S : y <= x
Range(s) == {s[i] : i \in 1..Len(s)}

\* Array.prototype.findIndex / find: the first index whose element passes, 0 for -1
FindIndex(s, Test(_)) ==
  LET hits == {i \in 1..Len(s) : Test(s[i])}
  IN IF hits = {} THEN 0 ELSE CHOOSE i \in hits : \A j \in hits : i <= j

\* Times are ISO strings.  The number n stands for "2025-01-01T0n:00:00.000Z", what
\* new Date().toISOString() yields, so the order of the numbers is both the order
\* of the strings as text and the order of the instants.  ZonedTime stands for
\* "2025-01-01T09:00:00+10:00", a time with a UTC offset: as text it comes after
\* every n below it, as an instant (2024-12-31T23:00Z) before all of them.
ZonedTime == 9

\* new Date(t).getTime(), counted in hours from 2025-01-01T00:00Z
Instant(t) == IF t = ZonedTime THEN 0 - 1 ELSE t

\* Array.prototype.sort with the comparator a.k - b.k: stable insertion by key
InsertKeyed(s, p) ==
  LET n == Cardinality({i \in 1..Len(s) : s[i].k <= p.k})
  IN SubSeq(s, 1, n) \o <<p>> \o SubSeq(s, n + 1, Len(s))

RECURSIVE SortKeyed(_)
SortKeyed(s) ==
  IF s = <<>> THEN <<>>
  ELSE InsertKeyed(SortKeyed(SubSeq(s, 1, Len(s) - 1)), s[Len(s)])

SortAsc(s, Key(_)) ==
  LET keyed == [i \in 1..Len(s) |-> [k |-> Key(s[i]), r |-> s[i]]]
      sorted == SortKeyed(keyed)
  IN [i \in 1..Len(s) |-> sorted[i].r]

SortDesc(s, Key(_)) ==
  LET keyed == [i \in 1..Len(s) |-> [k |-> 0 - Key(s[i]), r |-> s[i]]]
      sorted == SortKeyed(keyed)
  IN [i \in 1..Len(s) |-> sorted[i].r]

(***************************************************************************)
(* The fallback engine: one document under FALLBACK_KEY.                    *)
(***************************************************************************)
EmptyDoc ==
  [nextId |-> [t \in Tables |-> NoCounter],
   users |-> <<>>, friends |-> <<>>, rsvps |-> <<>>,
   user_prefs |-> <<>>, events |-> <<>>, notifications |-> <<>>]

\* the values of the keys of a row that match /id$/i
IdValues(tbl, r) ==
  CASE tbl = "users" -> {r.userId}
    [] tbl = "friends" -> {r.friendRowId, r.userId, r.friendId}
    [] tbl = "rsvps" -> {r.rsvpId, r.eventId, r.eventOwnerId, r.inviteRecipientId}
    [] tbl = "user_prefs" -> {r.preferenceId, r.userId}
    [] tbl = "events" -> {r.eventId, r.userId}
    [] tbl = "notifications" -> {r.notificationId, r.userId}

\* the primary key of a row
PrimaryId(tbl, r) ==
  CASE tbl = "users" -> r.userId
    [] tbl = "friends" -> r.friendRowId
    [] tbl = "rsvps" -> r.rsvpId
    [] tbl = "user_prefs" -> r.preferenceId
    [] tbl = "events" -> r.eventId
    [] tbl = "notifications" -> r.notificationId

\* the counter loadFallback gives a table that has none: max id-like value + 1
BackfillCounter(db, tbl) ==
  Max(UNION {IdValues(tbl, r) : r \in Range(db[tbl])}) + 1

Normalized(doc) ==
  [doc EXCEPT !.nextId = [t \in Tables |->
      IF doc.nextId[t] = NoCounter THEN BackfillCounter(doc, t) ELSE doc.nextId[t]]]

\* a load that takes every stored value for a missing one
loadFallback_Reset(kv) == [db |-> EmptyDoc, kv |-> [present |-> TRUE, doc |-> EmptyDoc]]

\* loadFallback: kv is the stored value ([present, doc]); the result is the
\* document handed to the caller and the value persisted by the load itself
loadFallback(kv) ==
  IF ~kv.present
  THEN [db |-> EmptyDoc, kv |-> [present |-> TRUE, doc |-> EmptyDoc]]
  ELSE [db |-> Normalized(kv.doc), kv |-> [present |-> TRUE, doc |-> Normalized(kv.doc)]]

saveFallback(db) == [present |-> TRUE, doc |-> db]

\* a nextId that hands out the counter without advancing it
nextId_NoAdvance(db, table) ==
  LET n == IF db.nextId[table] = NoCounter THEN 1 ELSE db.nextId[table]
  IN [n |-> n, db |-> db]

nextId(db, table) ==
  LET n == IF db.nextId[table] = NoCounter THEN 1 ELSE db.nextId[table]
  IN [n |-> n, db |-> [db EXCEPT !.nextId[table] = n + 1]]


Keep(s, Test(_)) == SelectSeq(s, Test)
\* rows[0] ?? null, as a list of at most one row
FirstOf(s) == IF s = <<>> THEN <<>> ELSE <<s[1]>>

(***************************************************************************)
(* Fallback bodies of the store functions: what each does to the document  *)
(* it loaded, the value it returns, and whether it saves.                   *)
(***************************************************************************)
FbResult(db, ret, save) == [db |-> db, ret |-> ret, save |-> save]

FbCreateUser(db, user) ==
  LET a == nextId(db, "users")
  IN FbResult([a.db EXCEPT !.users = Append(@, [userId |-> a.n, username |-> user.username, email |-> user.email])],
              a.n, TRUE)

FbGetUserById(db, id) ==
  FbResult(db, FirstOf(Keep(db.users, LAMBDA u : u.userId = id)), FALSE)

\* { ...row, ...fields }: a key the caller's object lacks keeps the row's value
FbUpdateUser(db, id, fields) ==
  LET idx == FindIndex(db.users, LAMBDA u : u.userId = id)
  IN IF idx = 0 THEN FbResult(db, 0, FALSE)
     ELSE FbResult([db EXCEPT !.users[idx] =
                      [@ EXCEPT !.username = IF fields.username = Undef THEN @ ELSE fields.username,
                                !.email = IF fields.email = Undef THEN @ ELSE fields.email]],
                   0, TRUE)

FbDeleteUser(db, id) ==
  FbResult([db EXCEPT
              !.users = Keep(@, LAMBDA u : u.userId # id),
              !.friends = Keep(@, LAMBDA r : r.userId # id /\ r.friendId # id),
              !.events = Keep(@, LAMBDA e : e.userId # id),
              !.rsvps = Keep(@, LAMBDA r : r.eventOwnerId # id /\ r.inviteRecipientId # id),
              !.notifications = Keep(@, LAMBDA n : n.userId # id),
              !.user_prefs = Keep(@, LAMBDA p : p.userId # id)],
           0, TRUE)

FbSendFriendRequest(db, senderId, receiverId) ==
  LET a == nextId(db, "friends")
  IN FbResult([a.db EXCEPT !.friends = Append(@, [friendRowId |-> a.n, userId |-> senderId,
                                                  friendId |-> receiverId, status |-> "pending"])],
              a.n, TRUE)

FbRespondFriendRequest(db, requestId, accept) ==
  LET idx == FindIndex(db.friends, LAMBDA rr : rr.friendRowId = requestId)
  IN IF idx = 0 THEN FbResult(db, 0, FALSE)
     ELSE FbResult([db EXCEPT !.friends[idx].status = IF accept THEN "accepted" ELSE "rejected"], 0, TRUE)

FbGetFriendRequestsForUser(db, userId) ==
  FbResult(db, Keep(db.friends, LAMBDA r : r.friendId = userId /\ r.status = "pending"), FALSE)

\* the receiver of every row, whoever asks
OtherEnd_FriendId(rows, userId) == [i \in 1..Len(rows) |-> rows[i].friendId]

\* the other endpoint of every accepted row touching userId
OtherEnd(rows, userId) ==
  [i \in 1..Len(rows) |-> IF rows[i].userId = userId THEN rows[i].friendId ELSE rows[i].userId]

FbGetFriendsForUser(db, userId) ==
  FbResult(db, OtherEnd(Keep(db.friends, LAMBDA r : r.status = "accepted"
                                           /\ (r.userId = userId \/ r.friendId = userId)), userId), FALSE)

FbRemoveFriend(db, userA, userB) ==
  FbResult([db EXCEPT !.friends = Keep(@, LAMBDA r : ~(r.status = "accepted"
               /\ ((r.userId = userA /\ r.friendId = userB) \/ (r.userId = userB /\ r.friendId = userA))))],
           0, TRUE)

FbCreateRsvp(db, rsvp, now) ==
  LET a == nextId(db, "rsvps")
  IN FbResult([a.db EXCEPT !.rsvps = Append(@,
                 [rsvpId |-> a.n, createdAt |-> CoalesceNum(rsvp.createdAt, now), eventId |-> rsvp.eventId,
                  eventOwnerId |-> rsvp.eventOwnerId, inviteRecipientId |-> rsvp.inviteRecipientId,
                  status |-> Coalesce(rsvp.status, "pending"), updatedAt |-> CoalesceNum(rsvp.updatedAt, now)])],
              a.n, TRUE)

FbGetRsvpsForEvent(db, eventId) ==
  FbResult(db, SortAsc(Keep(db.rsvps, LAMBDA r : r.eventId = eventId), LAMBDA r : Instant(r.createdAt)), FALSE)

FbGetRsvpsForUser(db, userId) ==
  FbResult(db, SortDesc(Keep(db.rsvps, LAMBDA r : r.inviteRecipientId = userId), LAMBDA r : Instant(r.createdAt)), FALSE)

\* an update that stores the merged row as the whole table
FbUpdateRsvp_Replace(db, rsvpId, fields, now) ==
  LET idx == FindIndex(db.rsvps, LAMBDA r : r.rsvpId = rsvpId)
  IN IF idx = 0 THEN FbResult(db, 0, FALSE)
     ELSE FbResult([db EXCEPT !.rsvps = <<[@[idx] EXCEPT !.status = fields.status,
                                                        !.updatedAt = CoalesceNum(fields.updatedAt, now)]>>],
                   0, TRUE)

\* { ...row, ...fields, updatedAt }: fields.status is a key of the caller's object
\* even when its value is undefined
FbUpdateRsvp(db, rsvpId, fields, now) ==
  LET idx == FindIndex(db.rsvps, LAMBDA r : r.rsvpId = rsvpId)
  IN IF idx = 0 THEN FbResult(db, 0, FALSE)
     ELSE FbResult([db EXCEPT !.rsvps[idx] = [@ EXCEPT !.status = fields.status,
                                                       !.updatedAt = CoalesceNum(fields.updatedAt, now)]],
                   0, TRUE)

FbDeleteRsvp(db, rsvpId) ==
  FbResult([db EXCEPT !.rsvps = Keep(@, LAMBDA r : r.rsvpId # rsvpId)], 0, TRUE)

\* const title = event.eventTitle ?? event.title ?? null
EventTitle(event) == Coalesce(event.eventTitle, Coalesce(event.title, Null))

\* a createEvent that returns without saveFallback
FbCreateEvent_Unsaved(db, event) ==
  LET a == nextId(db, "events")
  IN FbResult(a.db, a.n, FALSE)

FbCreateEvent(db, event) ==
  LET a == nextId(db, "events")
  IN FbResult([a.db EXCEPT !.events = Append(@,
                 [eventId |-> a.n, userId |-> event.userId, eventTitle |-> EventTitle(event),
                  description |-> Coalesce(event.description, Null), startTime |-> event.startTime,
                  endTime |-> CoalesceNum(event.endTime, NullNum), date |-> Coalesce(event.date, Null),
                  isEvent |-> CoalesceNum(event.isEvent, 1), recurring |-> CoalesceNum(event.recurring, 0)])],
              a.n, TRUE)

FbGetEventsForUser(db, userId) ==
  FbResult(db, SortAsc(Keep(db.events, LAMBDA e : e.userId = userId), LAMBDA e : Instant(e.startTime)), FALSE)

FbDeleteEvent(db, eventId) ==
  FbResult([db EXCEPT !.events = Keep(@, LAMBDA e : e.eventId # eventId)], 0, TRUE)

FbAddFreeTime(db, slot) ==
  LET a == nextId(db, "events")
  IN FbResult([a.db EXCEPT !.events = Append(@,
                 [eventId |-> a.n, userId |-> slot.userId, eventTitle |-> Null, description |-> Null,
                  startTime |-> slot.startTime, endTime |-> CoalesceNum(slot.endTime, NullNum),
                  date |-> Null, isEvent |-> 0, recurring |-> 0])],
              a.n, TRUE)

FbGetFreeTimeForUser(db, userId) ==
  FbResult(db, SortAsc(Keep(db.events, LAMBDA f : f.userId = userId /\ f.isEvent = 0),
                       LAMBDA f : Instant(f.startTime)), FALSE)

FbAddNotification(db, note, now) ==
  LET a == nextId(db, "notifications")
  IN FbResult([a.db EXCEPT !.notifications = Append(@,
                 [notificationId |-> a.n, userId |-> note.userId, notifMsg |-> note.notifMsg,
                  notifType |-> Coalesce(note.notifType, Null), createdAt |-> CoalesceNum(note.timestamp, now)])],
              a.n, TRUE)

FbGetNotificationsForUser(db, userId) ==
  FbResult(db, SortDesc(Keep(db.notifications, LAMBDA n : n.userId = userId), LAMBDA n : Instant(n.createdAt)), FALSE)

FbClearNotificationsForUser(db, userId) ==
  FbResult([db EXCEPT !.notifications = Keep(@, LAMBDA n : n.userId # userId)], 0, TRUE)

\* a setUserPreferences that inserts a row without looking for the user's row
FbSetUserPreferences_AlwaysInsert(db, userId, prefs, now) ==
  LET a == nextId(db, "user_prefs")
  IN FbResult([a.db EXCEPT !.user_prefs = Append(@,
                 [preferenceId |-> a.n, userId |-> userId, theme |-> CoalesceNum(prefs.theme, 0),
                  notificationEnabled |-> CoalesceNum(prefs.notificationEnabled, 1),
                  colorScheme |-> CoalesceNum(prefs.colorScheme, 0), updatedAt |-> now])],
              0, TRUE)

\* existing row: { ...row, ...prefs, updatedAt } (an undefined value overwrites);
\* no row: a new one with the defaults theme 0, notificationEnabled 1, colorScheme 0
FbSetUserPreferences(db, userId, prefs, now) ==
  LET idx == FindIndex(db.user_prefs, LAMBDA p : p.userId = userId)
  IN IF idx # 0
     THEN FbResult([db EXCEPT !.user_prefs[idx] =
                      [@ EXCEPT !.theme = prefs.theme, !.notificationEnabled = prefs.notificationEnabled,
                                !.colorScheme = prefs.colorScheme, !.updatedAt = now]], 0, TRUE)
     ELSE LET a == nextId(db, "user_prefs")
          IN FbResult([a.db EXCEPT !.user_prefs = Append(@,
                         [preferenceId |-> a.n, userId |-> userId, theme |-> CoalesceNum(prefs.theme, 0),
                          notificationEnabled |-> CoalesceNum(prefs.notificationEnabled, 1),
                          colorScheme |-> CoalesceNum(prefs.colorScheme, 0), updatedAt |-> now])],
                      0, TRUE)

FbGetUserPreferences(db, userId) ==
  FbResult(db, FirstOf(Keep(db.user_prefs, LAMBDA p : p.userId = userId)), FALSE)

(***************************************************************************)
(* The native engine: six SQL tables with AUTOINCREMENT primary keys.  Each *)
(* execSqlNative call is one transaction; a statement against a table that  *)
(* createNativeTables has not created yet is rejected.                      *)
(***************************************************************************)
\* broken: the CREATE TABLE statements of createNativeTables throw on this database
EmptySql ==
  [created |-> FALSE, broken |-> FALSE, seq |-> [t \in Tables |-> 0],
   users |-> <<>>, friends |-> <<>>, rsvps |-> <<>>,
   user_prefs |-> <<>>, events |-> <<>>, notifications |-> <<>>]

NatResult(sql, ret, err) == [sql |-> sql, ret |-> ret, err |-> err]
NatReject(sql) == NatResult(sql, 0, TRUE)

\* INSERT: the row gets the next AUTOINCREMENT value, returned as insertId
NatInsert(sql, tbl, Row(_)) ==
  LET id == sql.seq[tbl] + 1
  IN NatResult([sql EXCEPT !.seq[tbl] = id, ![tbl] = Append(@, Row(id))], id, FALSE)

NatCreateUser(sql, user) ==
  IF ~sql.created THEN NatReject(sql)
  ELSE NatInsert(sql, "users", LAMBDA id : [userId |-> id, username |-> user.username, email |-> user.email])

NatGetUserById(sql, id) ==
  IF ~sql.created THEN NatReject(sql)
  ELSE NatResult(sql, FirstOf(Keep(sql.users, LAMBDA u : u.userId = id)), FALSE)

\* only username and email are written, and only when not undefined
NatUpdateUser(sql, id, fields) ==
  IF fields.username = Undef /\ fields.email = Undef THEN NatResult(sql, 0, FALSE)
  ELSE IF ~sql.created THEN NatReject(sql)
  ELSE NatResult([sql EXCEPT !.users = [i \in 1..Len(@) |->
                    IF @[i].userId # id THEN @[i]
                    ELSE [@[i] EXCEPT !.username = IF fields.username = Undef THEN @ ELSE fields.username,
                                      !.email = IF fields.email = Undef THEN @ ELSE fields.email]]],
                 0, FALSE)

\* DELETE FROM users only: no other table is touched
NatDeleteUser(sql, id) ==
  IF ~sql.created THEN NatReject(sql)
  ELSE NatResult([sql EXCEPT !.users = Keep(@, LAMBDA u : u.userId # id)], 0, FALSE)

NatSendFriendRequest(sql, senderId, receiverId) ==
  IF ~sql.created THEN NatReject(sql)
  ELSE NatInsert(sql, "friends", LAMBDA id : [friendRowId |-> id, userId |-> senderId,
                                              friendId |-> receiverId, status |-> "pending"])

NatRespondFriendRequest(sql, requestId, accept) ==
  IF ~sql.created THEN NatReject(sql)
  ELSE NatResult([sql EXCEPT !.friends = [i \in 1..Len(@) |->
                    IF @[i].friendRowId # requestId THEN @[i]
                    ELSE [@[i] EXCEPT !.status = IF accept THEN "accepted" ELSE "rejected"]]],
                 0, FALSE)

NatGetFriendRequestsForUser(sql, userId) ==
  IF ~sql.created THEN NatReject(sql)
  ELSE NatResult(sql, Keep(sql.friends, LAMBDA r : r.friendId = userId /\ r.status = "pending"), FALSE)

NatGetFriendsForUser(sql, userId) ==
  IF ~sql.created THEN NatReject(sql)
  ELSE NatResult(sql, OtherEnd(Keep(sql.friends, LAMBDA r : r.status = "accepted"
                                      /\ (r.userId = userId \/ r.friendId = userId)), userId), FALSE)

NatRemoveFriend(sql, userA, userB) ==
  IF ~sql.created THEN NatReject(sql)
  ELSE NatResult([sql EXCEPT !.friends = Keep(@, LAMBDA r : ~(r.status = "accepted"
                    /\ ((r.userId = userA /\ r.friendId = userB) \/ (r.userId = userB /\ r.friendId = userA))))],
                 0, FALSE)

NatCreateRsvp(sql, rsvp, now) ==
  IF ~sql.created THEN NatReject(sql)
  ELSE NatInsert(sql, "rsvps", LAMBDA id :
         [rsvpId |-> id, createdAt |-> CoalesceNum(rsvp.createdAt, now), eventId |-> rsvp.eventId,
          eventOwnerId |-> rsvp.eventOwnerId, inviteRecipientId |-> rsvp.inviteRecipientId,
          status |-> Coalesce(rsvp.status, "pending"), updatedAt |-> CoalesceNum(rsvp.updatedAt, now)])

\* ORDER BY on a TEXT column: the rows come in the order of the strings
NatGetRsvpsForEvent(sql, eventId) ==
  IF ~sql.created THEN NatReject(sql)
  ELSE NatResult(sql, SortAsc(Keep(sql.rsvps, LAMBDA r : r.eventId = eventId), LAMBDA r : r.createdAt), FALSE)

NatGetRsvpsForUser(sql, userId) ==
  IF ~sql.created THEN NatReject(sql)
  ELSE NatResult(sql, SortDesc(Keep(sql.rsvps, LAMBDA r : r.inviteRecipientId = userId),
                               LAMBDA r : r.createdAt), FALSE)

\* with fields.status undefined the statement is "UPDATE rsvps SET  , updatedAt = ?": a syntax error
NatUpdateRsvp(sql, rsvpId, fields, now) ==
  IF ~sql.created \/ fields.status = Undef THEN NatReject(sql)
  ELSE NatResult([sql EXCEPT !.rsvps = [i \in 1..Len(@) |->
                    IF @[i].rsvpId # rsvpId THEN @[i]
                    ELSE [@[i] EXCEPT !.status = fields.status,
                                      !.updatedAt = CoalesceNum(fields.updatedAt, now)]]],
                 0, FALSE)

NatDeleteRsvp(sql, rsvpId) ==
  IF ~sql.created THEN NatReject(sql)
  ELSE NatResult([sql EXCEPT !.rsvps = Keep(@, LAMBDA r : r.rsvpId # rsvpId)], 0, FALSE)

NatCreateEvent(sql, event) ==
  IF ~sql.created THEN NatReject(sql)
  ELSE NatInsert(sql, "events", LAMBDA id :
         [eventId |-> id, userId |-> event.userId, eventTitle |-> EventTitle(event),
          description |-> Coalesce(event.description, Null), startTime |-> event.startTime,
          endTime |-> CoalesceNum(event.endTime, NullNum), date |-> Coalesce(event.date, Null),
          isEvent |-> CoalesceNum(event.isEvent, 1), recurring |-> CoalesceNum(event.recurring, 0)])

NatGetEventsForUser(sql, userId) ==
  IF ~sql.created THEN NatReject(sql)
  ELSE NatResult(sql, SortAsc(Keep(sql.events, LAMBDA e : e.userId = userId), LAMBDA e : e.startTime), FALSE)

NatDeleteEvent(sql, eventId) ==
  IF ~sql.created THEN NatReject(sql)
  ELSE NatResult([sql EXCEPT !.events = Keep(@, LAMBDA e : e.eventId # eventId)], 0, FALSE)

\* INSERT INTO events (userId, startTime, endTime, isEvent): the other columns are NULL
NatAddFreeTime(sql, slot) ==
  IF ~sql.created THEN NatReject(sql)
  ELSE NatInsert(sql, "events", LAMBDA id :
         [eventId |-> id, userId |-> slot.userId, eventTitle |-> Null, description |-> Null,
          startTime |-> slot.startTime, endTime |-> CoalesceNum(slot.endTime, NullNum),
          date |-> Null, isEvent |-> 0, recurring |-> NullNum])

NatGetFreeTimeForUser(sql, userId) ==
  IF ~sql.created THEN NatReject(sql)
  ELSE NatResult(sql, SortAsc(Keep(sql.events, LAMBDA f : f.userId = userId /\ f.isEvent = 0),
                              LAMBDA f : f.startTime), FALSE)

NatAddNotification(sql, note, now) ==
  IF ~sql.created THEN NatReject(sql)
  ELSE NatInsert(sql, "notifications", LAMBDA id :
         [notificationId |-> id, userId |-> note.userId, notifMsg |-> note.notifMsg,
          notifType |-> Coalesce(note.notifType, Null), createdAt |-> CoalesceNum(note.timestamp, now)])

NatGetNotificationsForUser(sql, userId) ==
  IF ~sql.created THEN NatReject(sql)
  ELSE NatResult(sql, SortDesc(Keep(sql.notifications, LAMBDA n : n.userId = userId),
                               LAMBDA n : n.createdAt), FALSE)

NatClearNotificationsForUser(sql, userId) ==
  IF ~sql.created THEN NatReject(sql)
  ELSE NatResult([sql EXCEPT !.notifications = Keep(@, LAMBDA n : n.userId # userId)], 0, FALSE)

\* setUserPreferences is two transactions: the SELECT, then the UPDATE or the INSERT
NatSelectPrefs(sql, userId) ==
  IF ~sql.created THEN NatReject(sql)
  ELSE NatResult(sql, Keep(sql.user_prefs, LAMBDA p : p.userId = userId), FALSE)

\* existing is the SELECT's result; the UPDATE writes the fields that are not
\* undefined to every row of the user, and is skipped when there is none
NatWritePrefs(sql, existing, userId, prefs, now) ==
  IF Len(existing) > 0
  THEN IF prefs.theme = UndefNum /\ prefs.notificationEnabled = UndefNum /\ prefs.colorScheme = UndefNum
       THEN NatResult(sql, 0, FALSE)
       ELSE IF ~sql.created THEN NatReject(sql)
       ELSE NatResult([sql EXCEPT !.user_prefs = [i \in 1..Len(@) |->
                         IF @[i].userId # userId THEN @[i]
                         ELSE [@[i] EXCEPT
                                 !.theme = IF prefs.theme = UndefNum THEN @ ELSE prefs.theme,
                                 !.notificationEnabled = IF prefs.notificationEnabled = UndefNum THEN @
                                                         ELSE prefs.notificationEnabled,
                                 !.colorScheme = IF prefs.colorScheme = UndefNum THEN @ ELSE prefs.colorScheme,
                                 !.updatedAt = now]]],
                      0, FALSE)
  ELSE IF ~sql.created THEN NatReject(sql)
  ELSE LET r == NatInsert(sql, "user_prefs", LAMBDA id :
                  [preferenceId |-> id, userId |-> userId, theme |-> CoalesceNum(prefs.theme, 0),
                   notificationEnabled |-> CoalesceNum(prefs.notificationEnabled, 1),
                   colorScheme |-> CoalesceNum(prefs.colorScheme, 0), updatedAt |-> now])
       IN NatResult(r.sql, 0, FALSE)

NatGetUserPreferences(sql, userId) ==
  IF ~sql.created THEN NatReject(sql)
  ELSE NatResult(sql, FirstOf(Keep(sql.user_prefs, LAMBDA p : p.userId = userId)), FALSE)

(***************************************************************************)
(* State.                                                                   *)
(***************************************************************************)
VARIABLES
  nativeAvail,   \* expo-sqlite opens a handle that has transaction() (not web)
  useNative,     \* db.ts: let useNative
  initialized,   \* db.ts: let initialized
  stored,        \* the value under FALLBACK_KEY: [present, doc]
  sqlDb,         \* the native database
  clock,         \* the wall clock new Date() reads
  opsLeft,       \* store calls the UI may still issue
  lastCall,      \* the store call that completed last, with what it returned
  issued,        \* per table, the ids fallback creates have returned
  tasks,         \* store calls in flight, each at its suspension point
  remote,        \* what the backend returns for the user
  pass,          \* the sync pass in flight
  passesLeft,    \* sync passes that may still start
  faultsLeft,    \* sync passes in which a fetch may still fail
  syncTimer,     \* part_011: let syncTimer, the handle setInterval returned or null
  timers,        \* the interval timers of the runtime: [active, made]
  snap           \* history: the rows when the pass started, the rows after the first of the
                 \* passes that ran back to back, how many did, which fetches failed

vars == <<nativeAvail, useNative, initialized, stored, sqlDb, clock, opsLeft, lastCall, issued,
          tasks, remote, pass, passesLeft, faultsLeft, syncTimer, timers, snap>>

\* the module state and the two stores, as the store functions see them
St == [useNative |-> useNative, kv |-> stored, sql |-> sqlDb]

(***************************************************************************)
(* db.ts: engine selection and the public store functions.  Each takes the *)
(* state st and returns the state after the awaited call, the value the    *)
(* promise resolves to, and whether it rejected.                            *)
(***************************************************************************)
tryInitNative(st) ==
  IF st.useNative \/ ~nativeAvail THEN st ELSE [st EXCEPT !.useNative = TRUE]

ViaNative(st, r) == [st |-> [st EXCEPT !.sql = r.sql], ret |-> r.ret, err |-> r.err]

ViaFallback(st, Body(_)) ==
  LET ld == loadFallback(st.kv)
      m == Body(ld.db)
  IN [st |-> [st EXCEPT !.kv = IF m.save THEN saveFallback(m.db) ELSE ld.kv], ret |-> m.ret, err |-> FALSE]

createNativeTables(sql) == [sql EXCEPT !.created = TRUE]

\* createFails: the CREATE TABLE statements throw
init_db(st, createFails) ==
  LET s == tryInitNative(st)
  IN IF s.useNative
     THEN IF createFails THEN [s EXCEPT !.useNative = FALSE, !.kv = loadFallback(s.kv).kv]
          ELSE [s EXCEPT !.sql = createNativeTables(s.sql)]
     ELSE [s EXCEPT !.kv = loadFallback(s.kv).kv]

getStatus == [initialized |-> initialized, backend |-> IF useNative THEN "native" ELSE "fallback"]

createUser(st, user) ==
  LET s == tryInitNative(st)
  IN IF s.useNative THEN ViaNative(s, NatCreateUser(s.sql, user))
     ELSE ViaFallback(s, LAMBDA db : FbCreateUser(db, user))

getUserById(st, id) ==
  LET s == tryInitNative(st)
  IN IF s.useNative THEN ViaNative(s, NatGetUserById(s.sql, id))
     ELSE ViaFallback(s, LAMBDA db : FbGetUserById(db, id))

updateUser(st, id, fields) ==
  LET s == tryInitNative(st)
  IN IF s.useNative THEN ViaNative(s, NatUpdateUser(s.sql, id, fields))
     ELSE ViaFallback(s, LAMBDA db : FbUpdateUser(db, id, fields))

deleteUser(st, id) ==
  LET s == tryInitNative(st)
  IN IF s.useNative THEN ViaNative(s, NatDeleteUser(s.sql, id))
     ELSE ViaFallback(s, LAMBDA db : FbDeleteUser(db, id))

sendFriendRequest(st, senderId, receiverId) ==
  LET s == tryInitNative(st)
  IN IF s.useNative THEN ViaNative(s, NatSendFriendRequest(s.sql, senderId, receiverId))
     ELSE ViaFallback(s, LAMBDA db : FbSendFriendRequest(db, senderId, receiverId))

respondFriendRequest(st, requestId, accept) ==
  LET s == tryInitNative(st)
  IN IF s.useNative THEN ViaNative(s, NatRespondFriendRequest(s.sql, requestId, accept))
     ELSE ViaFallback(s, LAMBDA db : FbRespondFriendRequest(db, requestId, accept))

getFriendRequestsForUser(st, userId) ==
  LET s == tryInitNative(st)
  IN IF s.useNative THEN ViaNative(s, NatGetFriendRequestsForUser(s.sql, userId))
     ELSE ViaFallback(s, LAMBDA db : FbGetFriendRequestsForUser(db, userId))

getFriendsForUser(st, userId) ==
  LET s == tryInitNative(st)
  IN IF s.useNative THEN ViaNative(s, NatGetFriendsForUser(s.sql, userId))
     ELSE ViaFallback(s, LAMBDA db : FbGetFriendsForUser(db, userId))

removeFriend(st, userA, userB) ==
  LET s == tryInitNative(st)
  IN IF s.useNative THEN ViaNative(s, NatRemoveFriend(s.sql, userA, userB))
     ELSE ViaFallback(s, LAMBDA db : FbRemoveFriend(db, userA, userB))

createRsvp(st, rsvp, now) ==
  LET s == tryInitNative(st)
  IN IF s.useNative THEN ViaNative(s, NatCreateRsvp(s.sql, rsvp, now))
     ELSE ViaFallback(s, LAMBDA db : FbCreateRsvp(db, rsvp, now))

getRsvpsForEvent(st, eventId) ==
  LET s == tryInitNative(st)
  IN IF s.useNative THEN ViaNative(s, NatGetRsvpsForEvent(s.sql, eventId))
     ELSE ViaFallback(s, LAMBDA db : FbGetRsvpsForEvent(db, eventId))

getRsvpsForUser(st, userId) ==
  LET s == tryInitNative(st)
  IN IF s.useNative THEN ViaNative(s, NatGetRsvpsForUser(s.sql, userId))
     ELSE ViaFallback(s, LAMBDA db : FbGetRsvpsForUser(db, userId))

updateRsvp(st, rsvpId, fields, now) ==
  LET s == tryInitNative(st)
  IN IF s.useNative THEN ViaNative(s, NatUpdateRsvp(s.sql, rsvpId, fields, now))
     ELSE ViaFallback(s, LAMBDA db : FbUpdateRsvp(db, rsvpId, fields, now))

deleteRsvp(st, rsvpId) ==
  LET s == tryInitNative(st)
  IN IF s.useNative THEN ViaNative(s, NatDeleteRsvp(s.sql, rsvpId))
     ELSE ViaFallback(s, LAMBDA db : FbDeleteRsvp(db, rsvpId))

createEvent(st, event) ==
  LET s == tryInitNative(st)
  IN IF s.useNative THEN ViaNative(s, NatCreateEvent(s.sql, event))
     ELSE ViaFallback(s, LAMBDA db : FbCreateEvent(db, event))

getEventsForUser(st, userId) ==
  LET s == tryInitNative(st)
  IN IF s.useNative THEN ViaNative(s, NatGetEventsForUser(s.sql, userId))
     ELSE ViaFallback(s, LAMBDA db : FbGetEventsForUser(db, userId))

deleteEvent(st, eventId) ==
  LET s == tryInitNative(st)
  IN IF s.useNative THEN ViaNative(s, NatDeleteEvent(s.sql, eventId))
     ELSE ViaFallback(s, LAMBDA db : FbDeleteEvent(db, eventId))

addFreeTime(st, slot) ==
  LET s == tryInitNative(st)
  IN IF s.useNative THEN ViaNative(s, NatAddFreeTime(s.sql, slot))
     ELSE ViaFallback(s, LAMBDA db : FbAddFreeTime(db, slot))

getFreeTimeForUser(st, userId) ==
  LET s == tryInitNative(st)
  IN IF s.useNative THEN ViaNative(s, NatGetFreeTimeForUser(s.sql, userId))
     ELSE ViaFallback(s, LAMBDA db : FbGetFreeTimeForUser(db, userId))

addNotification(st, note, now) ==
  LET s == tryInitNative(st)
  IN IF s.useNative THEN ViaNative(s, NatAddNotification(s.sql, note, now))
     ELSE ViaFallback(s, LAMBDA db : FbAddNotification(db, note, now))

getNotificationsForUser(st, userId) ==
  LET s == tryInitNative(st)
  IN IF s.useNative THEN ViaNative(s, NatGetNotificationsForUser(s.sql, userId))
     ELSE ViaFallback(s, LAMBDA db : FbGetNotificationsForUser(db, userId))

clearNotificationsForUser(st, userId) ==
  LET s == tryInitNative(st)
  IN IF s.useNative THEN ViaNative(s, NatClearNotificationsForUser(s.sql, userId))
     ELSE ViaFallback(s, LAMBDA db : FbClearNotificationsForUser(db, userId))

\* awaited with nothing else running: the SELECT and the write follow each other
setUserPreferences(st, userId, prefs, now) ==
  LET s == tryInitNative(st)
  IN IF s.useNative
     THEN LET existing == NatSelectPrefs(s.sql, userId)
          IN IF existing.err THEN ViaNative(s, existing)
             ELSE ViaNative(s, NatWritePrefs(s.sql, existing.ret, userId, prefs, now))
     ELSE ViaFallback(s, LAMBDA db : FbSetUserPreferences(db, userId, prefs, now))

getUserPreferences(st, userId) ==
  LET s == tryInitNative(st)
  IN IF s.useNative THEN ViaNative(s, NatGetUserPreferences(s.sql, userId))
     ELSE ViaFallback(s, LAMBDA db : FbGetUserPreferences(db, userId))

(***************************************************************************)
(* Store calls as values: what the UI (or a sync pass) asks of the store.   *)
(***************************************************************************)
NewUser(name) == [username |-> name, email |-> name]
NewRsvp(ev, owner, recipient, status) ==
  [eventId |-> ev, eventOwnerId |-> owner, inviteRecipientId |-> recipient, status |-> status,
   createdAt |-> UndefNum, updatedAt |-> UndefNum]
NewEvent(u, title, start) ==
  [userId |-> u, eventTitle |-> title, title |-> Undef, description |-> Undef, startTime |-> start,
   endTime |-> UndefNum, date |-> Undef, isEvent |-> UndefNum, recurring |-> UndefNum]
NewNote(u, msg) == [userId |-> u, notifMsg |-> msg, notifType |-> Undef, timestamp |-> UndefNum]
NewPrefs(theme) == [theme |-> theme, notificationEnabled |-> UndefNum, colorScheme |-> UndefNum]

CreateFns == {"createUser", "sendFriendRequest", "createRsvp", "createEvent", "addFreeTime", "addNotification"}

\* the table a create function inserts into
TableOf(fn) ==
  CASE fn = "createUser" -> "users"
    [] fn = "sendFriendRequest" -> "friends"
    [] fn = "createRsvp" -> "rsvps"
    [] fn \in {"createEvent", "addFreeTime"} -> "events"
    [] fn = "addNotification" -> "notifications"
    [] OTHER -> "user_prefs"

\* another user than u
Other(u) == (u % MaxUser) + 1

\* the primary ids a table of the active engine holds, and one id no row has
IdsIn(rows, tbl) == {PrimaryId(tbl, r) : r \in Range(rows)}
MissingId(rows, tbl) == Max(IdsIn(rows, tbl)) + 1
Targets(rows, tbl) == IdsIn(rows, tbl) \cup {MissingId(rows, tbl)}

UiCreates ==
  {[fn |-> "createUser", user |-> NewUser("alice")]}
  \cup {[fn |-> "sendFriendRequest", senderId |-> u, receiverId |-> Other(u)] : u \in UserIds}
  \cup {[fn |-> "createRsvp", rsvp |-> NewRsvp(1, 1, v, Undef)] : v \in UserIds}
  \cup {[fn |-> "createEvent", event |-> NewEvent(u, "local", 0)] : u \in UserIds}
  \cup {[fn |-> "addFreeTime", slot |-> [userId |-> 1, startTime |-> 0, endTime |-> UndefNum]]}
  \cup {[fn |-> "addNotification", note |-> NewNote(1, "hello")]}

UiUpdates(d) ==
  {[fn |-> "updateUser", id |-> i, fields |-> NewUser("bob")] : i \in Targets(d.users, "users")}
  \cup {[fn |-> "respondFriendRequest", id |-> i, accept |-> b] : i \in Targets(d.friends, "friends"), b \in BOOLEAN}
  \cup {[fn |-> "updateRsvp", id |-> i, fields |-> [status |-> "accepted", updatedAt |-> UndefNum]] :
          i \in Targets(d.rsvps, "rsvps")}
  \cup {[fn |-> "setUserPreferences", userId |-> 1, prefs |-> NewPrefs(th)] : th \in {0, 1}}

UiDeletes(d) ==
  {[fn |-> "deleteUser", id |-> u] : u \in UserIds}
  \cup {[fn |-> "removeFriend", userA |-> 1, userB |-> Other(1)]}
  \cup {[fn |-> "deleteRsvp", id |-> i] : i \in Targets(d.rsvps, "rsvps")}
  \cup {[fn |-> "deleteEvent", id |-> i] : i \in Targets(d.events, "events")}
  \cup {[fn |-> "clearNotificationsForUser", userId |-> 1]}

UiReads ==
  {[fn |-> f, userId |-> 1] : f \in {"getUserById", "getFriendsForUser", "getFriendRequestsForUser",
                                     "getEventsForUser", "getFreeTimeForUser", "getRsvpsForUser",
                                     "getNotificationsForUser", "getUserPreferences"}}
  \cup {[fn |-> "getRsvpsForEvent", eventId |-> 1]}

\* the awaited call c, issued at time now
Call(st, c, now) ==
  CASE c.fn = "createUser" -> createUser(st, c.user)
    [] c.fn = "getUserById" -> getUserById(st, c.userId)
    [] c.fn = "updateUser" -> updateUser(st, c.id, c.fields)
    [] c.fn = "deleteUser" -> deleteUser(st, c.id)
    [] c.fn = "sendFriendRequest" -> sendFriendRequest(st, c.senderId, c.receiverId)
    [] c.fn = "respondFriendRequest" -> respondFriendRequest(st, c.id, c.accept)
    [] c.fn = "getFriendRequestsForUser" -> getFriendRequestsForUser(st, c.userId)
    [] c.fn = "getFriendsForUser" -> getFriendsForUser(st, c.userId)
    [] c.fn = "removeFriend" -> removeFriend(st, c.userA, c.userB)
    [] c.fn = "createRsvp" -> createRsvp(st, c.rsvp, now)
    [] c.fn = "getRsvpsForEvent" -> getRsvpsForEvent(st, c.eventId)
    [] c.fn = "getRsvpsForUser" -> getRsvpsForUser(st, c.userId)
    [] c.fn = "updateRsvp" -> updateRsvp(st, c.id, c.fields, now)
    [] c.fn = "deleteRsvp" -> deleteRsvp(st, c.id)
    [] c.fn = "createEvent" -> createEvent(st, c.event)
    [] c.fn = "getEventsForUser" -> getEventsForUser(st, c.userId)
    [] c.fn = "deleteEvent" -> deleteEvent(st, c.id)
    [] c.fn = "addFreeTime" -> addFreeTime(st, c.slot)
    [] c.fn = "getFreeTimeForUser" -> getFreeTimeForUser(st, c.userId)
    [] c.fn = "addNotification" -> addNotification(st, c.note, now)
    [] c.fn = "getNotificationsForUser" -> getNotificationsForUser(st, c.userId)
    [] c.fn = "clearNotificationsForUser" -> clearNotificationsForUser(st, c.userId)
    [] c.fn = "setUserPreferences" -> setUserPreferences(st, c.userId, c.prefs, now)
    [] c.fn = "getUserPreferences" -> getUserPreferences(st, c.userId)

(***************************************************************************)
(* Initial state: the module just loaded, both stores empty.                *)
(***************************************************************************)
NoCall == [fn |-> "none", id |-> 0, ret |-> 0, err |-> FALSE, native |-> FALSE, prevMax |-> 0]
NoRemote == [user |-> <<>>, events |-> <<>>, friends |-> <<>>, rsvps |-> <<>>,
             notifications |-> <<>>, preferences |-> <<>>]
\* settled: the fetches of the pass that have settled, where they settle one by one
NoPass == [pc |-> "idle", userId |-> 0, got |-> NoRemote, list |-> <<>>, i |-> 0, hit |-> 0, settled |-> {}]
NoRows == [t \in Tables |-> <<>>]
NoSnap == [before |-> NoRows, base |-> NoRows, streak |-> 0, quiet |-> TRUE, failed |-> {}, ended |-> "none"]

\* no interval timer was ever created
NoTimers == [active |-> {}, made |-> 0]

InitCommon ==
  /\ useNative = FALSE
  /\ initialized = FALSE
  /\ stored = [present |-> FALSE, doc |-> EmptyDoc]
  /\ sqlDb = EmptySql
  /\ clock = 0
  /\ lastCall = NoCall
  /\ issued = [t \in Tables |-> {}]
  /\ tasks = <<>>
  /\ pass = NoPass
  /\ snap = NoSnap
  /\ syncTimer = NullNum
  /\ timers = NoTimers

(***************************************************************************)
(* Sequential use: the UI awaits every store call before the next.          *)
(***************************************************************************)
InitStore ==
  /\ InitCommon
  /\ nativeAvail \in BOOLEAN
  /\ opsLeft = MaxOps
  /\ remote = NoRemote
  /\ passesLeft = 0
  /\ faultsLeft = 0

\* the rows the active engine holds
ActiveDb == IF useNative THEN sqlDb ELSE stored.doc

SetStore(s) ==
  /\ useNative' = s.useNative
  /\ stored' = s.kv
  /\ sqlDb' = s.sql

InitDb(failures) ==
  /\ \E createFails \in failures : SetStore(init_db(St, createFails))
  /\ initialized' = TRUE
  /\ UNCHANGED <<nativeAvail, clock, opsLeft, lastCall, issued, tasks, remote, pass, passesLeft, faultsLeft, syncTimer, timers, snap>>

\* the process is killed and started again: module state is lost, the stores stay
Restart ==
  /\ initialized
  /\ useNative' = FALSE
  /\ initialized' = FALSE
  /\ UNCHANGED <<nativeAvail, stored, sqlDb, clock, opsLeft, lastCall, issued, tasks,
                 remote, pass, passesLeft, faultsLeft, syncTimer, timers, snap>>

Tick ==
  /\ clock < MaxClock
  /\ clock' = clock + 1
  /\ UNCHANGED <<nativeAvail, useNative, initialized, stored, sqlDb, opsLeft, lastCall, issued,
                 tasks, remote, pass, passesLeft, faultsLeft, syncTimer, timers, snap>>

CallId(c) == IF "id" \in DOMAIN c THEN c.id ELSE 0

\* one awaited call of the UI
UiCall(calls) ==
  /\ opsLeft > 0
  /\ pass.pc = "idle"
  /\ \E c \in calls :
       LET r == Call(St, c, clock)
           isCreate == c.fn \in CreateFns /\ ~r.err
           tbl == TableOf(c.fn)
       IN /\ SetStore(r.st)
          /\ lastCall' = [fn |-> IF c \in UiReads THEN "read" ELSE c.fn, id |-> CallId(c),
                          ret |-> IF isCreate THEN r.ret ELSE 0,
                          err |-> r.err, native |-> r.st.useNative,
                          prevMax |-> IF isCreate /\ ~r.st.useNative THEN Max(issued[tbl]) ELSE 0]
          /\ issued' = IF isCreate /\ ~r.st.useNative
                       THEN [issued EXCEPT ![tbl] = @ \cup {r.ret}] ELSE issued
          /\ snap' = [snap EXCEPT !.quiet = @ /\ c \in UiReads]
  /\ opsLeft' = opsLeft - 1
  /\ UNCHANGED <<nativeAvail, initialized, clock, tasks, remote, pass, passesLeft, faultsLeft, syncTimer, timers>>

UiCreate == UiCall(UiCreates)
UiUpdate == UiCall(UiUpdates(ActiveDb))
UiDelete == UiCall(UiDeletes(ActiveDb))
UiRead == UiCall(UiReads)

NextStore ==
  \/ InitDb(BOOLEAN)
  \/ Restart
  \/ UiCreate
  \/ UiUpdate
  \/ UiDelete
  \/ UiRead

SpecStore == InitStore /\ [][NextStore]_vars

(***************************************************************************)
(* Properties of sequential use.                                            *)
(***************************************************************************)
\* the rows of the engine that served the call
DbOf(native, kv, sql) == IF native THEN sql ELSE kv.doc

\* row r of table tbl references user id
References(tbl, r, id) ==
  CASE tbl = "users" -> r.userId = id
    [] tbl = "friends" -> r.userId = id \/ r.friendId = id
    [] tbl = "rsvps" -> r.eventOwnerId = id \/ r.inviteRecipientId = id
    [] OTHER -> r.userId = id

\* C1: on the fallback engine with every call awaited, the id a create returns is
\* strictly greater than every id an earlier create on the same table returned,
\* whatever updates, deletes and restarts came between.
C1_FallbackIdsIncrease ==
  (lastCall.fn \in CreateFns /\ ~lastCall.err /\ ~lastCall.native) => lastCall.ret > lastCall.prevMax

\* a fallback createEvent returned 2 after the event with id 1 was deleted
C1_Witness ==
  /\ lastCall.fn = "createEvent" /\ ~lastCall.native
  /\ lastCall.prevMax = 1 /\ lastCall.ret = 2
  /\ IdsIn(stored.doc.events, "events") = {2}

\* C3: after deleteUser(id) completes, on whichever engine is active, no friendship,
\* event, RSVP, notification or preference row references id, and every row that
\* does not reference id is unchanged.
C3_DeleteUserCascades ==
  [][(lastCall'.fn = "deleteUser" /\ ~lastCall'.err /\ opsLeft' # opsLeft) =>
       \A t \in Tables :
         DbOf(useNative', stored', sqlDb')[t]
           = Keep(DbOf(useNative', stored, sqlDb)[t], LAMBDA r : ~References(t, r, lastCall'.id))]_vars

(***************************************************************************)
(* Concurrent use: calls issued without awaiting one another.  A fallback   *)
(* call suspends at storage.getItem, at the setItem inside loadFallback and *)
(* at saveFallback; a native call suspends at every execSqlNative.          *)
(***************************************************************************)
MaxTasks == 2         \* store calls issued in one behaviour of concurrent use

\* what a fallback call does between loadFallback and saveFallback
FbBody(c, db, now) ==
  CASE c.fn = "createUser" -> FbCreateUser(db, c.user)
    [] c.fn = "getUserById" -> FbGetUserById(db, c.userId)
    [] c.fn = "updateUser" -> FbUpdateUser(db, c.id, c.fields)
    [] c.fn = "deleteUser" -> FbDeleteUser(db, c.id)
    [] c.fn = "sendFriendRequest" -> FbSendFriendRequest(db, c.senderId, c.receiverId)
    [] c.fn = "respondFriendRequest" -> FbRespondFriendRequest(db, c.id, c.accept)
    [] c.fn = "getFriendRequestsForUser" -> FbGetFriendRequestsForUser(db, c.userId)
    [] c.fn = "getFriendsForUser" -> FbGetFriendsForUser(db, c.userId)
    [] c.fn = "removeFriend" -> FbRemoveFriend(db, c.userA, c.userB)
    [] c.fn = "createRsvp" -> FbCreateRsvp(db, c.rsvp, now)
    [] c.fn = "getRsvpsForEvent" -> FbGetRsvpsForEvent(db, c.eventId)
    [] c.fn = "getRsvpsForUser" -> FbGetRsvpsForUser(db, c.userId)
    [] c.fn = "updateRsvp" -> FbUpdateRsvp(db, c.id, c.fields, now)
    [] c.fn = "deleteRsvp" -> FbDeleteRsvp(db, c.id)
    [] c.fn = "createEvent" -> FbCreateEvent(db, c.event)
    [] c.fn = "getEventsForUser" -> FbGetEventsForUser(db, c.userId)
    [] c.fn = "deleteEvent" -> FbDeleteEvent(db, c.id)
    [] c.fn = "addFreeTime" -> FbAddFreeTime(db, c.slot)
    [] c.fn = "getFreeTimeForUser" -> FbGetFreeTimeForUser(db, c.userId)
    [] c.fn = "addNotification" -> FbAddNotification(db, c.note, now)
    [] c.fn = "getNotificationsForUser" -> FbGetNotificationsForUser(db, c.userId)
    [] c.fn = "clearNotificationsForUser" -> FbClearNotificationsForUser(db, c.userId)
    [] c.fn = "setUserPreferences" -> FbSetUserPreferences(db, c.userId, c.prefs, now)
    [] c.fn = "getUserPreferences" -> FbGetUserPreferences(db, c.userId)

\* the one transaction of a native call that has one
NatBody(c, sql, now) ==
  CASE c.fn = "createUser" -> NatCreateUser(sql, c.user)
    [] c.fn = "deleteUser" -> NatDeleteUser(sql, c.id)
    [] c.fn = "createEvent" -> NatCreateEvent(sql, c.event)
    [] c.fn = "getEventsForUser" -> NatGetEventsForUser(sql, c.userId)
    [] c.fn = "deleteEvent" -> NatDeleteEvent(sql, c.id)
    [] c.fn = "getUserPreferences" -> NatGetUserPreferences(sql, c.userId)

ConcCalls ==
  {[fn |-> "createEvent", event |-> NewEvent(1, "local", 0)],
   [fn |-> "deleteEvent", id |-> 1],
   [fn |-> "getEventsForUser", userId |-> 1],
   [fn |-> "createUser", user |-> NewUser("alice")],
   [fn |-> "deleteUser", id |-> 1]}
  \cup {[fn |-> "setUserPreferences", userId |-> 1, prefs |-> NewPrefs(th)] : th \in {0, 1}}

NewTask(c, native, overlap) ==
  [c |-> c, native |-> native, overlap |-> overlap,
   pc |-> IF ~native THEN "get" ELSE IF c.fn = "setUserPreferences" THEN "select" ELSE "exec",
   val |-> [present |-> FALSE, doc |-> EmptyDoc], db |-> EmptyDoc, existing |-> <<>>,
   ret |-> 0, err |-> FALSE]

InFlight == {i \in DOMAIN tasks : tasks[i].pc # "done"}

InitConc ==
  /\ InitCommon
  /\ nativeAvail \in BOOLEAN
  /\ opsLeft = 0
  /\ remote = NoRemote
  /\ passesLeft = 0
  /\ faultsLeft = 0

\* a call is issued: it runs up to its first await, tryInitNative included
Issue ==
  /\ initialized
  /\ Len(tasks) < MaxTasks
  /\ \E c \in ConcCalls :
       LET s == tryInitNative(St)
       IN /\ useNative' = s.useNative
          /\ tasks' = Append(tasks, NewTask(c, s.useNative, InFlight # {}))
  /\ UNCHANGED <<nativeAvail, initialized, stored, sqlDb, clock, opsLeft, lastCall, issued,
                 remote, pass, passesLeft, faultsLeft, syncTimer, timers, snap>>

TaskFrame == UNCHANGED <<nativeAvail, useNative, initialized, clock, opsLeft, lastCall, issued,
                         remote, pass, passesLeft, faultsLeft, syncTimer, timers, snap>>

\* loadFallback: storage.getItem resolves
TaskGet(i) ==
  /\ tasks[i].pc = "get"
  /\ tasks' = [tasks EXCEPT ![i].val = stored, ![i].pc = "norm"]
  /\ UNCHANGED <<stored, sqlDb>>
  /\ TaskFrame

\* loadFallback writes the initial or normalized document back and returns it; the
\* caller mutates its copy and, unless it returns early, goes on to saveFallback
TaskNorm(i) ==
  /\ tasks[i].pc = "norm"
  /\ LET ld == loadFallback(tasks[i].val)
         m == FbBody(tasks[i].c, ld.db, clock)
     IN /\ stored' = ld.kv
        /\ tasks' = [tasks EXCEPT ![i].db = m.db, ![i].ret = m.ret,
                                  ![i].pc = IF m.save THEN "save" ELSE "done"]
  /\ UNCHANGED sqlDb
  /\ TaskFrame

\* saveFallback: storage.setItem writes the caller's whole document
TaskSave(i) ==
  /\ tasks[i].pc = "save"
  /\ stored' = saveFallback(tasks[i].db)
  /\ tasks' = [tasks EXCEPT ![i].pc = "done"]
  /\ UNCHANGED sqlDb
  /\ TaskFrame

\* a native call with one statement: its transaction runs
TaskExec(i) ==
  /\ tasks[i].pc = "exec"
  /\ LET r == NatBody(tasks[i].c, sqlDb, clock)
     IN /\ sqlDb' = r.sql
        /\ tasks' = [tasks EXCEPT ![i].ret = r.ret, ![i].err = r.err, ![i].pc = "done"]
  /\ UNCHANGED stored
  /\ TaskFrame

\* native setUserPreferences: the SELECT's transaction runs
TaskSelect(i) ==
  /\ tasks[i].pc = "select"
  /\ LET r == NatSelectPrefs(sqlDb, tasks[i].c.userId)
     IN tasks' = [tasks EXCEPT ![i].existing = r.ret, ![i].err = r.err,
                               ![i].pc = IF r.err THEN "done" ELSE "write"]
  /\ UNCHANGED <<stored, sqlDb>>
  /\ TaskFrame

\* native setUserPreferences: the UPDATE or INSERT chosen from the SELECT's result runs
TaskWrite(i) ==
  /\ tasks[i].pc = "write"
  /\ LET r == NatWritePrefs(sqlDb, tasks[i].existing, tasks[i].c.userId, tasks[i].c.prefs, clock)
     IN /\ sqlDb' = r.sql
        /\ tasks' = [tasks EXCEPT ![i].err = r.err, ![i].pc = "done"]
  /\ UNCHANGED stored
  /\ TaskFrame

NextConc ==
  \/ InitDb({FALSE})
  \/ Tick
  \/ Issue
  \/ \E i \in DOMAIN tasks : TaskGet(i)
  \/ \E i \in DOMAIN tasks : TaskNorm(i)
  \/ \E i \in DOMAIN tasks : TaskSave(i)
  \/ \E i \in DOMAIN tasks : TaskExec(i)
  \/ \E i \in DOMAIN tasks : TaskSelect(i)
  \/ \E i \in DOMAIN tasks : TaskWrite(i)

SpecConc == InitConc /\ [][NextConc]_vars

\* C2: under concurrent use of the fallback engine the persisted next-id counter of a
\* table never decreases from one persisted state to the next, and no create returns
\* an id that an earlier create on the same table returned.
C2_CountersAndIdsNeverReused ==
  [][/\ \A t \in Tables : stored'.doc.nextId[t] >= stored.doc.nextId[t]
     /\ \A i \in DOMAIN tasks, j \in DOMAIN tasks :
          (/\ i # j /\ ~tasks[i].native /\ ~tasks[j].native
           /\ tasks[i].c.fn \in CreateFns /\ tasks[j].c.fn \in CreateFns
           /\ TableOf(tasks[i].c.fn) = TableOf(tasks[j].c.fn)
           /\ tasks[j].pc = "done" /\ tasks[i].pc # "done" /\ tasks'[i].pc = "done")
          => tasks'[i].ret # tasks[j].ret]_vars

\* the preference rows of user u in the active engine
PrefRows(u) == Keep(ActiveDb.user_prefs, LAMBDA p : p.userId = u)

\* C4 (Scenario D): when two setUserPreferences calls for the same user are issued
\* without awaiting the first, after both settle exactly one preference row exists
\* for the user, carrying the theme of one of the two calls; on either engine.
C4_ConcurrentPrefsOneRow ==
  (/\ Len(tasks) = 2
   /\ tasks[1].c.fn = "setUserPreferences" /\ tasks[2].c.fn = "setUserPreferences"
   /\ tasks[2].overlap
   /\ InFlight = {})
  => /\ Len(PrefRows(1)) = 1
     /\ PrefRows(1)[1].theme \in {tasks[1].c.prefs.theme, tasks[2].c.prefs.theme}

(***************************************************************************)
(* The sync engine (simpleSync): one pass pulls the six resources of the    *)
(* user and applies them to the store, one awaited store call at a time.    *)
(***************************************************************************)
Resources == {"users", "events", "friends", "rsvps", "notifications", "preferences"}

\* the user the app is logged in as
LoggedIn == {1}

\* what the backend holds: the k-th event, notification, friendship and RSVP of the user
RemoteTitles == <<"E1", "", Undef>>
RemoteMsgs == <<"n1", "n2", "n3">>
Cycle(seq, k) == seq[((k - 1) % Len(seq)) + 1]

RemoteUser == [userId |-> 1, username |-> "alice", email |-> "alice"]
RemoteEvent(k) ==
  [userId |-> 1, eventTitle |-> Cycle(RemoteTitles, k),
   title |-> IF Cycle(RemoteTitles, k) = Undef THEN "T3" ELSE Undef,
   description |-> "d", startTime |-> k, endTime |-> k, date |-> "d",
   isEvent |-> IF k % 2 = 0 THEN NullNum ELSE 1, recurring |-> IF k % 2 = 0 THEN UndefNum ELSE 7]
RemoteNote(k) == [userId |-> 1, notifMsg |-> Cycle(RemoteMsgs, k), notifType |-> "info", createdAt |-> k]
\* the other users come first, the user itself last
RemoteFriend(k, status) == [friendId |-> Other(k), status |-> status]
\* the first invitation goes to the user, the next ones to the other users
RemoteRsvp(k) ==
  [eventId |-> 1, eventOwnerId |-> 1, inviteRecipientId |-> ((k - 1) % MaxUser) + 1, status |-> "accepted"]
RemotePrefs == [theme |-> 1, notificationEnabled |-> 0, colorScheme |-> 1]

RemoteCases ==
  {[user |-> IF full THEN <<RemoteUser>> ELSE <<>>,
    events |-> [i \in 1..k |-> RemoteEvent(i)],
    friends |-> [i \in 1..k |-> RemoteFriend(i, status)],
    rsvps |-> [i \in 1..k |-> RemoteRsvp(i)],
    notifications |-> [i \in 1..k |-> RemoteNote(i)],
    preferences |-> IF full THEN <<RemotePrefs>> ELSE <<>>] :
      k \in 0..MaxRemote, status \in {"accepted", "pending"}, full \in BOOLEAN}

\* the fetches that fail in one pass: any one of them, or all of them
FaultSets == {{r} : r \in Resources} \cup {Resources}

\* one failed fetch fails them all: every resource takes its default
Fetched_AllOrNothing(rem, failed) == IF failed = {} THEN rem ELSE NoRemote

\* Promise.all over the six fetches, each with its catch: a failed fetch yields
\* null (user, preferences) or [] (the lists)
Fetched(rem, failed) ==
  [user |-> IF "users" \in failed THEN <<>> ELSE rem.user,
   events |-> IF "events" \in failed THEN <<>> ELSE rem.events,
   friends |-> IF "friends" \in failed THEN <<>> ELSE rem.friends,
   rsvps |-> IF "rsvps" \in failed THEN <<>> ELSE rem.rsvps,
   notifications |-> IF "notifications" \in failed THEN <<>> ELSE rem.notifications,
   preferences |-> IF "preferences" \in failed THEN <<>> ELSE rem.preferences]

\* the rows of the engine that state st uses
Shot(st) == [t \in Tables |-> DbOf(st.useNative, st.kv, st.sql)[t]]

\* where the pass suspends next: the code from one await up to the next awaited call
ToPrefs(p) ==
  IF p.got.preferences # <<>> THEN [p EXCEPT !.pc = "setUserPreferences"] ELSE [p EXCEPT !.pc = "idle"]
ToNote(p, i) ==
  IF i <= Len(p.got.notifications) THEN [p EXCEPT !.pc = "addNotification", !.i = i] ELSE ToPrefs(p)
ToRsvp(p, i) ==
  IF i <= Len(p.got.rsvps) THEN [p EXCEPT !.pc = "getRsvps", !.i = i]
  ELSE [p EXCEPT !.pc = "clearNotifications"]
ToFriend(p, i) ==
  IF i <= Len(p.got.friends) THEN [p EXCEPT !.pc = "getFriends", !.i = i] ELSE ToRsvp(p, 1)
ToCreate(p, i) ==
  IF i <= Len(p.got.events) THEN [p EXCEPT !.pc = "createEvent", !.i = i] ELSE ToFriend(p, 1)
\* a pass that inserts the remote events without deleting the local ones first
ToDelete_Skip(p, i) == ToCreate(p, 1)

ToDelete(p, i) ==
  IF i <= Len(p.list) THEN [p EXCEPT !.pc = "deleteEvent", !.i = i] ELSE ToCreate(p, 1)
ToUser(p) ==
  IF p.got.user # <<>> THEN [p EXCEPT !.pc = "getUser"] ELSE [p EXCEPT !.pc = "getEvents"]

\* a number has no friendId property: f.friendId is undefined
FriendIdOfNumber(f) == UndefNum

InitSync ==
  /\ InitCommon
  /\ nativeAvail \in BOOLEAN
  /\ opsLeft = MaxLocal
  /\ remote \in RemoteCases
  /\ passesLeft = MaxPasses
  /\ faultsLeft = MaxFaults

PassFrame == UNCHANGED <<nativeAvail, initialized, clock, opsLeft, lastCall, issued, tasks, remote,
                         passesLeft, faultsLeft, timers>>

\* a check that never sees the timer
TimerRunning_Never(t) == FALSE

\* a timer handle is truthy: if (syncTimer)
TimerRunning(t) == t # NullNum /\ t # 0

\* a handler that gives the auto-sync up after a failed pass
CatchError_GivesUp(t) == NullNum

\* syncFromBackend(userId).catch(console.error): the rejection is logged and
\* syncTimer is left as it is
CatchError(t) == t

\* syncFromBackend(userId) is called and issues the six fetches
BeginPass(u) ==
  /\ pass.pc = "idle"
  /\ passesLeft > 0
  /\ pass' = [NoPass EXCEPT !.pc = "fetch", !.userId = u]
  /\ passesLeft' = passesLeft - 1
  /\ snap' = [snap EXCEPT !.before = Shot(St), !.streak = IF snap.quiet THEN @ ELSE 0,
                          !.quiet = TRUE, !.failed = {}, !.ended = "none"]

\* startAutoSync's immediate pass or a tick of its timer, the store initialized
\* as the call sites do before they start the sync
StartPass ==
  /\ initialized
  /\ \E u \in LoggedIn : BeginPass(u)
  /\ UNCHANGED <<nativeAvail, useNative, initialized, stored, sqlDb, clock, opsLeft, lastCall, issued,
                 tasks, remote, faultsLeft, syncTimer, timers>>

\* all six fetches have settled, those of one of the sets in outages rejected
FetchWith(outages) ==
  /\ pass.pc = "fetch"
  /\ \E failed \in {{}} \cup (IF faultsLeft > 0 THEN outages ELSE {}) :
       /\ pass' = ToUser([pass EXCEPT !.got = Fetched(remote, failed)])
       /\ snap' = [snap EXCEPT !.failed = failed]
       /\ faultsLeft' = IF failed = {} THEN faultsLeft ELSE faultsLeft - 1
  /\ UNCHANGED <<nativeAvail, useNative, initialized, stored, sqlDb, clock, opsLeft, lastCall, issued,
                 tasks, remote, passesLeft, syncTimer, timers>>

Fetch == FetchWith(FaultSets)

\* the awaited store call returned r: the pass goes on to nxt, returns when nxt
\* is past the last call, or rethrows when the call rejected
Resume(r, nxt) ==
  /\ SetStore(r.st)
  /\ pass' = IF r.err \/ nxt.pc = "idle" THEN NoPass ELSE nxt
  /\ syncTimer' = IF r.err THEN CatchError(syncTimer) ELSE syncTimer
  /\ snap' = IF r.err THEN [snap EXCEPT !.streak = 0, !.ended = "rejected"]
             ELSE IF nxt.pc # "idle" THEN snap
             ELSE [snap EXCEPT !.ended = "completed",
                               !.streak = IF snap.failed = {} THEN @ + 1 ELSE 0,
                               !.base = IF snap.failed = {} /\ snap.streak = 0 THEN Shot(r.st) ELSE @]
  /\ PassFrame

GetUser ==
  /\ pass.pc = "getUser"
  /\ LET r == getUserById(St, pass.got.user[1].userId)
     IN Resume(r, [pass EXCEPT !.pc = "putUser", !.list = r.ret])

PutUser ==
  /\ pass.pc = "putUser"
  /\ LET users == pass.got.user[1]
     IN Resume(IF pass.list # <<>> THEN updateUser(St, users.userId, users) ELSE createUser(St, users),
               [pass EXCEPT !.pc = "getEvents", !.list = <<>>])

GetEvents ==
  /\ pass.pc = "getEvents"
  /\ LET r == getEventsForUser(St, pass.userId)
     IN Resume(r, ToDelete([pass EXCEPT !.list = r.ret], 1))

DeleteEvent ==
  /\ pass.pc = "deleteEvent"
  /\ Resume(deleteEvent(St, pass.list[pass.i].eventId), ToDelete(pass, pass.i + 1))

CreateEvent ==
  /\ pass.pc = "createEvent"
  /\ LET event == pass.got.events[pass.i]
     IN Resume(createEvent(St, [userId |-> event.userId,
                                eventTitle |-> OrElse(event.eventTitle, event.title), title |-> Undef,
                                description |-> event.description, startTime |-> event.startTime,
                                endTime |-> event.endTime, date |-> event.date,
                                isEvent |-> CoalesceNum(event.isEvent, 1),
                                recurring |-> CoalesceNum(event.recurring, 0)]),
               ToCreate([pass EXCEPT !.list = <<>>], pass.i + 1))

GetFriends ==
  /\ pass.pc = "getFriends"
  /\ LET friend == pass.got.friends[pass.i]
         r == getFriendsForUser(St, pass.userId)
         exists == FindIndex(r.ret, LAMBDA f : FriendIdOfNumber(f) = friend.friendId)
     IN Resume(r, IF exists = 0 THEN [pass EXCEPT !.pc = "sendFriendRequest"]
                  ELSE ToFriend(pass, pass.i + 1))

SendFriendRequest ==
  /\ pass.pc = "sendFriendRequest"
  /\ LET friend == pass.got.friends[pass.i]
     IN Resume(sendFriendRequest(St, pass.userId, friend.friendId),
               IF friend.status = "accepted" THEN [pass EXCEPT !.pc = "getFriendRequests"]
               ELSE ToFriend(pass, pass.i + 1))

GetFriendRequests ==
  /\ pass.pc = "getFriendRequests"
  /\ LET friend == pass.got.friends[pass.i]
         r == getFriendRequestsForUser(St, pass.userId)
         request == FindIndex(r.ret, LAMBDA q : q.friendId = friend.friendId)
     IN Resume(r, IF request # 0
                  THEN [pass EXCEPT !.pc = "respondFriendRequest", !.hit = r.ret[request].friendRowId]
                  ELSE ToFriend(pass, pass.i + 1))

RespondFriendRequest ==
  /\ pass.pc = "respondFriendRequest"
  /\ Resume(respondFriendRequest(St, pass.hit, TRUE), ToFriend([pass EXCEPT !.hit = 0], pass.i + 1))

GetRsvps ==
  /\ pass.pc = "getRsvps"
  /\ LET rsvp == pass.got.rsvps[pass.i]
         r == getRsvpsForUser(St, pass.userId)
         exists == FindIndex(r.ret, LAMBDA q : q.eventId = rsvp.eventId
                                               /\ q.inviteRecipientId = rsvp.inviteRecipientId)
     IN Resume(r, IF exists = 0 THEN [pass EXCEPT !.pc = "createRsvp"]
                  ELSE [pass EXCEPT !.pc = "updateRsvp", !.hit = r.ret[exists].rsvpId])

CreateRsvp ==
  /\ pass.pc = "createRsvp"
  /\ LET rsvp == pass.got.rsvps[pass.i]
     IN Resume(createRsvp(St, NewRsvp(rsvp.eventId, rsvp.eventOwnerId, rsvp.inviteRecipientId, rsvp.status),
                          clock),
               ToRsvp(pass, pass.i + 1))

UpdateRsvp ==
  /\ pass.pc = "updateRsvp"
  /\ LET rsvp == pass.got.rsvps[pass.i]
     IN Resume(updateRsvp(St, pass.hit, [status |-> rsvp.status, updatedAt |-> UndefNum], clock),
               ToRsvp([pass EXCEPT !.hit = 0], pass.i + 1))

ClearNotifications ==
  /\ pass.pc = "clearNotifications"
  /\ Resume(clearNotificationsForUser(St, pass.userId), ToNote(pass, 1))

AddNotification ==
  /\ pass.pc = "addNotification"
  /\ LET notif == pass.got.notifications[pass.i]
     IN Resume(addNotification(St, [userId |-> notif.userId, notifMsg |-> notif.notifMsg,
                                    notifType |-> notif.notifType, timestamp |-> notif.createdAt], clock),
               ToNote(pass, pass.i + 1))

SetUserPreferences ==
  /\ pass.pc = "setUserPreferences"
  /\ LET preferences == pass.got.preferences[1]
     IN Resume(setUserPreferences(St, pass.userId,
                                  [theme |-> preferences.theme,
                                   notificationEnabled |-> preferences.notificationEnabled,
                                   colorScheme |-> preferences.colorScheme], clock),
               [pass EXCEPT !.pc = "idle"])

\* between passes the user creates an event or adds a free-time block
SyncUiCalls ==
  {[fn |-> "createEvent", event |-> NewEvent(1, "local", 0)],
   [fn |-> "addFreeTime", slot |-> [userId |-> 1, startTime |-> 0, endTime |-> UndefNum]]}

UiLocal == initialized /\ UiCall(SyncUiCalls)

NextSync ==
  \/ InitDb({FALSE})
  \/ UiLocal
  \/ StartPass
  \/ Fetch
  \/ GetUser
  \/ PutUser
  \/ GetEvents
  \/ DeleteEvent
  \/ CreateEvent
  \/ GetFriends
  \/ SendFriendRequest
  \/ GetFriendRequests
  \/ RespondFriendRequest
  \/ GetRsvps
  \/ CreateRsvp
  \/ UpdateRsvp
  \/ ClearNotifications
  \/ AddNotification
  \/ SetUserPreferences

SpecSync == InitSync /\ [][NextSync]_vars

(***************************************************************************)
(* Properties of the sync pass.                                             *)
(***************************************************************************)
\* the rows of a table that user u owns
OwnedBy(rows, u) == Keep(rows, LAMBDA r : r.userId = u)

\* a row without its local id
EventContent(e) ==
  [userId |-> e.userId, eventTitle |-> e.eventTitle, description |-> e.description,
   startTime |-> e.startTime, endTime |-> e.endTime, date |-> e.date,
   isEvent |-> e.isEvent, recurring |-> e.recurring]
NoteContent(n) ==
  [userId |-> n.userId, notifMsg |-> n.notifMsg, notifType |-> n.notifType, createdAt |-> n.createdAt]
EventContents(rows) == [i \in 1..Len(rows) |-> EventContent(rows[i])]
NoteContents(rows) == [i \in 1..Len(rows) |-> NoteContent(rows[i])]

\* the content of a remote event: its title is eventTitle or else title, and the
\* optional fields it leaves out take their defaults
RemoteEventContent(e) ==
  [userId |-> e.userId, eventTitle |-> Coalesce(e.eventTitle, Coalesce(e.title, Null)),
   description |-> Coalesce(e.description, Null), startTime |-> e.startTime,
   endTime |-> CoalesceNum(e.endTime, NullNum), date |-> Coalesce(e.date, Null),
   isEvent |-> CoalesceNum(e.isEvent, 1), recurring |-> CoalesceNum(e.recurring, 0)]

\* the friendship rows between users u and f
Between(rows, u, f) ==
  Keep(rows, LAMBDA r : (r.userId = u /\ r.friendId = f) \/ (r.userId = f /\ r.friendId = u))

\* the RSVP rows of the pair (eventId, inviteRecipientId)
PairRows(rows, ev, recipient) ==
  Keep(rows, LAMBDA r : r.eventId = ev /\ r.inviteRecipientId = recipient)

\* the rows now, in the engine in use
Now == Shot(St)

\* a pass has just completed and the UI has written nothing since it started
Settled == pass.pc = "idle" /\ snap.ended = "completed" /\ snap.quiet

\* C5: if the events fetch (the notifications fetch) of a pass fails, every event
\* (notification) of the user present before the pass is still present, unchanged,
\* after the pass.
C5_FailedFetchKeepsLocalRows ==
  Settled =>
    \A u \in LoggedIn :
      /\ "events" \in snap.failed =>
           \A e \in Range(OwnedBy(snap.before.events, u)) : e \in Range(Now.events)
      /\ "notifications" \in snap.failed =>
           \A n \in Range(OwnedBy(snap.before.notifications, u)) : n \in Range(Now.notifications)

\* C6: after a completed pass for user u with no UI writes during it, the events
\* owned by u are, one for one and with equal content, the events the remote
\* returned; no row u owned before the pass is left; and a repeated pass does not
\* increase the number of rows.
C6_EventsDestructiveReplace ==
  (Settled /\ "events" \notin snap.failed) =>
    \A u \in LoggedIn :
      /\ EventContents(OwnedBy(Now.events, u))
           = [i \in 1..Len(remote.events) |-> RemoteEventContent(remote.events[i])]
      /\ \A e \in Range(OwnedBy(snap.before.events, u)) : e \notin Range(Now.events)
      /\ snap.streak >= 2 => Len(OwnedBy(Now.events, u)) <= Len(OwnedBy(snap.base.events, u))

C8_FriendsNotDuplicated ==
  (Settled /\ snap.streak >= 2) =>
    \A u \in LoggedIn : \A i \in 1..Len(remote.friends) :
      Len(Between(Now.friends, u, remote.friends[i].friendId))
        = Len(Between(snap.base.friends, u, remote.friends[i].friendId))

\* C9: after a completed pass in which the remote returned an accepted friendship
\* with f that was not present locally before, the local friendship between u and f
\* is accepted and getFriendsForUser(u) contains f.
C9_AcceptedFriendshipAccepted ==
  (Settled /\ "friends" \notin snap.failed) =>
    \A u \in LoggedIn : \A i \in 1..Len(remote.friends) :
      LET f == remote.friends[i].friendId
      IN (remote.friends[i].status = "accepted" /\ Between(snap.before.friends, u, f) = <<>>)
         => /\ \E r \in Range(Between(Now.friends, u, f)) : r.status = "accepted"
            /\ f \in Range(getFriendsForUser(St, u).ret)

\* C10: after any number of completed passes with an unchanged remote RSVP list,
\* there is exactly one RSVP row for each remote (eventId, inviteRecipientId) pair,
\* whoever the recipient is, and its status is the remote status.
C10_OneRsvpRowPerPair ==
  (Settled /\ snap.streak >= 1) =>
    \A i \in 1..Len(remote.rsvps) :
      LET rows == PairRows(Now.rsvps, remote.rsvps[i].eventId, remote.rsvps[i].inviteRecipientId)
      IN Len(rows) = 1 /\ rows[1].status = remote.rsvps[i].status


(***************************************************************************)
(* The profile of a pass: the app is logged in as any of the users, the     *)
(* backend returns that user's profile, and other accounts may have been    *)
(* created or deleted on the device.                                        *)
(***************************************************************************)
RemoteProfile(r) == [RemoteUser EXCEPT !.userId = r]

ProfileCases == {[NoRemote EXCEPT !.user = <<RemoteProfile(r)>>] : r \in UserIds}

ProfileUiCalls ==
  {[fn |-> "createUser", user |-> NewUser("bob")]} \cup {[fn |-> "deleteUser", id |-> u] : u \in UserIds}

InitProfile ==
  /\ InitCommon
  /\ nativeAvail \in BOOLEAN
  /\ opsLeft = MaxLocal
  /\ remote \in ProfileCases
  /\ passesLeft = MaxPasses
  /\ faultsLeft = 0

\* a pass for the user whose profile the backend returns
StartProfilePass ==
  /\ initialized
  /\ BeginPass(remote.user[1].userId)
  /\ UNCHANGED <<nativeAvail, useNative, initialized, stored, sqlDb, clock, opsLeft, lastCall, issued,
                 tasks, remote, faultsLeft, syncTimer, timers>>

UiAccounts == initialized /\ UiCall(ProfileUiCalls)

NextProfile ==
  \/ InitDb({FALSE})
  \/ UiAccounts
  \/ StartProfilePass
  \/ Fetch
  \/ GetUser
  \/ PutUser
  \/ GetEvents
  \/ ClearNotifications

SpecProfile == InitProfile /\ [][NextProfile]_vars

\* the local rows that carry the username and the email of the remote profile
ProfileRows == Keep(Now.users, LAMBDA u : u.username = remote.user[1].username
                                         /\ u.email = remote.user[1].email)

\* C11: after a completed pass in which the remote returned a profile with
\* userId = r, getUserById(r) returns a row with the remote username and email,
\* and the users table holds exactly one row for that profile.
C11_UserUpsertKeyedByRemoteId ==
  (Settled /\ remote.user # <<>> /\ "users" \notin snap.failed) =>
    LET got == getUserById(St, remote.user[1].userId)
    IN /\ ~got.err
       /\ got.ret # <<>>
       /\ got.ret[1].username = remote.user[1].username
       /\ got.ret[1].email = remote.user[1].email
       /\ Len(ProfileRows) = 1

(***************************************************************************)
(* The merge of friendships and RSVPs: the users have sent, answered and    *)
(* invited on the device before and between the passes.                     *)
(***************************************************************************)
MergeCases ==
  {[NoRemote EXCEPT !.friends = [i \in 1..k |-> RemoteFriend(i, status)],
                    !.rsvps = [i \in 1..k |-> RemoteRsvp(i)]] :
     k \in 0..MaxRemote, status \in {"accepted", "pending"}}

MergeUiCalls(d) ==
  {[fn |-> "sendFriendRequest", senderId |-> Other(1), receiverId |-> 1]}
  \cup {[fn |-> "respondFriendRequest", id |-> i, accept |-> b] : i \in IdsIn(d.friends, "friends"), b \in BOOLEAN}
  \cup {[fn |-> "createRsvp", rsvp |-> NewRsvp(1, 1, 1, "pending")]}

InitMerge ==
  /\ InitCommon
  /\ nativeAvail \in BOOLEAN
  /\ opsLeft = MaxLocal
  /\ remote \in MergeCases
  /\ passesLeft = MaxPasses
  /\ faultsLeft = 0

UiSocial == initialized /\ UiCall(MergeUiCalls(ActiveDb))

NextMerge ==
  \/ InitDb({FALSE})
  \/ UiSocial
  \/ StartPass
  \/ Fetch
  \/ GetEvents
  \/ GetFriends
  \/ SendFriendRequest
  \/ GetFriendRequests
  \/ RespondFriendRequest
  \/ GetRsvps
  \/ CreateRsvp
  \/ UpdateRsvp
  \/ ClearNotifications

SpecMerge == InitMerge /\ [][NextMerge]_vars

\* friendship row g is row f, and still accepted if f was
SameFriendship(f, g) ==
  /\ g.friendRowId = f.friendRowId
  /\ g.userId = f.userId
  /\ g.friendId = f.friendId
  /\ f.status = "accepted" => g.status = "accepted"

\* RSVP row q is row r, whatever its status
SameRsvp(r, q) ==
  /\ q.rsvpId = r.rsvpId
  /\ q.eventId = r.eventId
  /\ q.eventOwnerId = r.eventOwnerId
  /\ q.inviteRecipientId = r.inviteRecipientId
  /\ q.createdAt = r.createdAt

\* C12 (P6): a sync pass with no concurrent UI writes never removes a friendship
\* row or an RSVP row and never turns an accepted friendship into a pending or
\* rejected one: at every step of the pass, and after it, every friendship and
\* RSVP row present when the pass started is present.
C12_PassKeepsFriendsAndRsvps ==
  (snap.quiet /\ (pass.pc # "idle" \/ snap.ended # "none")) =>
    /\ \A f \in Range(snap.before.friends) : \E g \in Range(Now.friends) : SameFriendship(f, g)
    /\ \A r \in Range(snap.before.rsvps) : \E q \in Range(Now.rsvps) : SameRsvp(r, q)

\* a pass that started over an accepted friendship, a pending request and an
\* RSVP completed after it accepted the request and wrote to the RSVP table
C12_Witness ==
  /\ Settled
  /\ \E f \in Range(snap.before.friends) : f.status = "accepted"
  /\ \E f \in Range(snap.before.friends) :
       f.status = "pending" /\ \E g \in Range(Now.friends) : SameFriendship(f, g) /\ g.status = "accepted"
  /\ snap.before.rsvps # <<>>
  /\ Now.rsvps # snap.before.rsvps

(***************************************************************************)
(* Outages: in a pass any of the six fetches may fail, alone or together.   *)
(***************************************************************************)
Outages == SUBSET Resources \ {{}}

\* the backend holds something of every resource
OutageCases == {rem \in RemoteCases : rem.user # <<>> /\ rem.events # <<>>}

InitOutage ==
  /\ InitCommon
  /\ nativeAvail \in BOOLEAN
  /\ opsLeft = 0
  /\ remote \in OutageCases
  /\ passesLeft = MaxPasses
  /\ faultsLeft = MaxFaults

FetchSome == FetchWith(Outages)

NextOutage ==
  \/ InitDb({FALSE})
  \/ StartPass
  \/ FetchSome
  \/ GetUser
  \/ PutUser
  \/ GetEvents
  \/ DeleteEvent
  \/ CreateEvent
  \/ GetFriends
  \/ SendFriendRequest
  \/ GetFriendRequests
  \/ RespondFriendRequest
  \/ GetRsvps
  \/ CreateRsvp
  \/ UpdateRsvp
  \/ ClearNotifications
  \/ AddNotification
  \/ SetUserPreferences

SpecOutage == InitOutage /\ [][NextOutage]_vars

\* the result of the fetch of resource res is in the store of user u
Applied(res, u) ==
  CASE res = "users" ->
         remote.user # <<>> =>
           \E row \in Range(Now.users) : /\ row.username = remote.user[1].username
                                         /\ row.email = remote.user[1].email
    [] res = "events" ->
         LET mine == OwnedBy(Now.events, u)
         IN /\ Len(mine) = Len(remote.events)
            /\ \A i \in 1..Len(mine) : /\ mine[i].startTime = remote.events[i].startTime
                                       /\ mine[i].description = remote.events[i].description
    [] res = "friends" ->
         \A i \in 1..Len(remote.friends) : Between(Now.friends, u, remote.friends[i].friendId) # <<>>
    [] res = "rsvps" ->
         \A i \in 1..Len(remote.rsvps) :
           \E q \in Range(PairRows(Now.rsvps, remote.rsvps[i].eventId, remote.rsvps[i].inviteRecipientId)) :
             q.status = remote.rsvps[i].status
    [] res = "notifications" ->
         NoteContents(OwnedBy(Now.notifications, u)) = remote.notifications
    [] res = "preferences" ->
         remote.preferences # <<>> =>
           \E p \in Range(Now.user_prefs) : /\ p.userId = u
                                            /\ p.theme = remote.preferences[1].theme
                                            /\ p.colorScheme = remote.preferences[1].colorScheme

\* C13: whichever of the six fetches of a pass fail, the pass does not reject,
\* and when it has completed the result of every fetch that succeeded is in the
\* store.
C13_FetchFailuresIsolated ==
  /\ snap.ended # "rejected"
  /\ Settled => \A u \in LoggedIn : \A res \in Resources \ snap.failed : Applied(res, u)

\* the friends fetch and one more failed, and the pass stored the remote notifications
C13_Witness ==
  /\ Settled
  /\ "friends" \in snap.failed
  /\ Cardinality(snap.failed) = 2
  /\ "notifications" \notin snap.failed
  /\ remote.notifications # <<>>
  /\ Applied("notifications", 1)

(***************************************************************************)
(* Auto-sync: startAutoSync, stopAutoSync and setSyncInterval are called in *)
(* any order, with or without init_db() before them; the interval timer     *)
(* ticks while it is active.  Passes run one at a time here.                *)
(***************************************************************************)
TimerCases == {NoRemote, [NoRemote EXCEPT !.user = <<RemoteUser>>]}

InitTimer ==
  /\ InitCommon
  /\ nativeAvail \in BOOLEAN
  /\ opsLeft = MaxOps
  /\ remote \in TimerCases
  /\ passesLeft = MaxPasses
  /\ faultsLeft = 0

\* a call of the sync module: what syncTimer was when it was made
TimerCall(fn) == [NoCall EXCEPT !.fn = fn, !.ret = IF TimerRunning(syncTimer) THEN syncTimer ELSE 0]

\* setInterval: a new handle, with the user id its callback closes over
SetInterval(tm, u) ==
  [active |-> tm.active \cup {[handle |-> tm.made + 1, userId |-> u]}, made |-> tm.made + 1]

\* clearInterval(handle)
ClearInterval(tm, handle) == [tm EXCEPT !.active = {t \in @ : t.handle # handle}]

StoreFrame == UNCHANGED <<nativeAvail, useNative, initialized, stored, sqlDb, clock, issued, tasks,
                          remote, faultsLeft>>

StartAutoSync ==
  /\ opsLeft > 0
  /\ opsLeft' = opsLeft - 1
  /\ lastCall' = TimerCall("startAutoSync")
  /\ IF TimerRunning(syncTimer)
     THEN UNCHANGED <<syncTimer, timers, pass, passesLeft, snap>>
     ELSE \E u \in LoggedIn :
            /\ BeginPass(u)
            /\ timers' = SetInterval(timers, u)
            /\ syncTimer' = timers'.made
  /\ StoreFrame

StopAutoSync ==
  /\ opsLeft > 0
  /\ opsLeft' = opsLeft - 1
  /\ lastCall' = TimerCall("stopAutoSync")
  /\ IF TimerRunning(syncTimer)
     THEN /\ timers' = ClearInterval(timers, syncTimer)
          /\ syncTimer' = NullNum
     ELSE UNCHANGED <<syncTimer, timers>>
  /\ UNCHANGED <<pass, passesLeft, snap>>
  /\ StoreFrame

\* setSyncInterval stops the auto-sync and does not start it again
SetSyncInterval ==
  /\ opsLeft > 0
  /\ opsLeft' = opsLeft - 1
  /\ lastCall' = TimerCall("setSyncInterval")
  /\ IF TimerRunning(syncTimer)
     THEN /\ timers' = ClearInterval(timers, syncTimer)
          /\ syncTimer' = NullNum
     ELSE UNCHANGED <<syncTimer, timers>>
  /\ UNCHANGED <<pass, passesLeft, snap>>
  /\ StoreFrame

\* SYNC_INTERVAL has elapsed: the callback of an active timer runs; err tells
\* that the pass before it rejected
TimerTick ==
  /\ \E t \in timers.active :
       /\ BeginPass(t.userId)
       /\ lastCall' = [NoCall EXCEPT !.fn = "tick", !.ret = t.handle, !.err = snap.ended = "rejected"]
  /\ UNCHANGED <<opsLeft, syncTimer, timers>>
  /\ StoreFrame

NextTimer ==
  \/ InitDb({FALSE})
  \/ StartAutoSync
  \/ StopAutoSync
  \/ SetSyncInterval
  \/ TimerTick
  \/ Fetch
  \/ GetUser
  \/ PutUser
  \/ GetEvents
  \/ ClearNotifications

SpecTimer == InitTimer /\ [][NextTimer]_vars

\* the step is a call of fn
CallStep(fn) == opsLeft' = opsLeft - 1 /\ lastCall'.fn = fn

\* C14: at most one interval timer is active at any time, and syncTimer is its
\* handle; startAutoSync called while a timer is active starts no pass and
\* creates no timer; stopAutoSync called while no timer is active changes nothing.
C14_AtMostOneTimer ==
  /\ [](/\ Cardinality(timers.active) <= 1
        /\ \A t \in timers.active : syncTimer = t.handle
        /\ TimerRunning(syncTimer) => timers.active # {})
  /\ [][(CallStep("startAutoSync") /\ timers.active # {})
          => UNCHANGED <<syncTimer, timers, pass, passesLeft, snap, useNative, stored, sqlDb>>]_vars
  /\ [][(CallStep("stopAutoSync") /\ timers.active = {})
          => UNCHANGED <<syncTimer, timers, pass, passesLeft, snap, useNative, stored, sqlDb>>]_vars

\* startAutoSync has just been called while the timer of an earlier call was active
C14_Witness ==
  /\ lastCall.fn = "startAutoSync"
  /\ lastCall.ret # 0
  /\ timers.made = 1
  /\ Cardinality(timers.active) = 1

\* the step in which a pass rejects
RejectStep == snap.ended # "rejected" /\ snap'.ended = "rejected"

\* the step is a tick of the timer
TickStep == passesLeft' = passesLeft - 1 /\ lastCall'.fn = "tick"

\* C15: a pass that rejects leaves the timer as it is; a timer that is active
\* stays active through every step that is not a call of stopAutoSync (or of
\* setSyncInterval, which calls it); and a tick, after a rejected pass too,
\* starts a new pass.
C15_RejectedPassKeepsTimer ==
  /\ [][RejectStep => UNCHANGED <<syncTimer, timers>>]_vars
  /\ [][(timers.active # {} /\ ~CallStep("stopAutoSync") /\ ~CallStep("setSyncInterval"))
          => UNCHANGED <<syncTimer, timers>>]_vars
  /\ [][TickStep => (pass'.pc = "fetch" /\ pass'.userId \in LoggedIn)]_vars

\* the immediate pass rejected, and the next tick of the timer has started a new pass
C15_Witness ==
  /\ lastCall.fn = "tick"
  /\ lastCall.err
  /\ pass.pc = "fetch"
  /\ TimerRunning(syncTimer)
  /\ timers.active # {}

(***************************************************************************)
(* Properties of the engine selection.                                      *)
(***************************************************************************)
\* C16: once init_db() has left the store on the fallback engine, the active
\* engine flag does not become native again while the process lives: every
\* later CRUD operation leaves useNative false and getStatus() reporting
\* 'fallback'.
C16_FallbackIsPermanent ==
  [][(initialized /\ ~useNative /\ opsLeft' = opsLeft - 1)
       => (~useNative' /\ getStatus'.backend = "fallback")]_vars

\* C17: a CRUD operation issued before any init_db() call has completed succeeds
\* against a ready store: it does not reject, on the native engine the six
\* tables exist after it, and a create returns the id of a row that a read finds.
C17_SelfHealsBeforeInit ==
  [][(~initialized /\ opsLeft' = opsLeft - 1)
       => /\ ~lastCall'.err
          /\ useNative' => sqlDb'.created
          /\ lastCall'.fn \in CreateFns
               => lastCall'.ret \in IdsIn(ActiveDb'[TableOf(lastCall'.fn)], TableOf(lastCall'.fn))]_vars

(***************************************************************************)
(* init_db() called several times, one call after another or interleaved.   *)
(* A call suspends after tryInitNative, at the CREATE TABLE statements, at   *)
(* storage.getItem and at storage.setItem.  The stores hold what an earlier *)
(* run of the app left, and CREATE TABLE works or fails for the whole run.  *)
(***************************************************************************)
PriorDoc == FbCreateEvent(EmptyDoc, NewEvent(1, "local", 0)).db

\* a document of an older version: rows, no counters
LegacyDoc == [PriorDoc EXCEPT !.nextId = [t \in Tables |-> NoCounter]]

PriorSql == NatCreateEvent([EmptySql EXCEPT !.created = TRUE], NewEvent(1, "local", 0)).sql

InitTask == [NewTask([fn |-> "init_db"], FALSE, FALSE) EXCEPT !.pc = "branch"]

InitInit ==
  /\ nativeAvail \in BOOLEAN
  /\ useNative = FALSE
  /\ initialized = FALSE
  /\ stored \in {[present |-> FALSE, doc |-> EmptyDoc], saveFallback(PriorDoc), saveFallback(LegacyDoc)}
  /\ sqlDb \in {[s EXCEPT !.broken = b] : s \in {EmptySql, PriorSql}, b \in BOOLEAN}
  /\ clock = 0
  /\ lastCall = NoCall
  /\ issued = [t \in Tables |-> {}]
  /\ tasks = <<>>
  /\ pass = NoPass
  /\ snap = NoSnap
  /\ syncTimer = NullNum
  /\ timers = NoTimers
  /\ opsLeft = 0
  /\ remote = NoRemote
  /\ passesLeft = 0
  /\ faultsLeft = 0

InitFrame == UNCHANGED <<nativeAvail, clock, opsLeft, lastCall, issued, remote, pass, passesLeft,
                         faultsLeft, syncTimer, timers, snap>>

\* init_db() is called: tryInitNative runs to its end, the call suspends at its await
InitIssue ==
  /\ Len(tasks) < MaxTasks
  /\ useNative' = tryInitNative(St).useNative
  /\ tasks' = Append(tasks, [InitTask EXCEPT !.overlap = InFlight # {}])
  /\ UNCHANGED <<initialized, stored, sqlDb>>
  /\ InitFrame

\* if (useNative): createNativeTables() up to its first statement, else loadFallback()
\* up to storage.getItem; createNativeTables returns at once when useNative is false
InitBranch(i) ==
  /\ tasks[i].pc = "branch"
  /\ tasks' = [tasks EXCEPT ![i].native = useNative, ![i].pc = IF useNative THEN "create" ELSE "get"]
  /\ UNCHANGED <<useNative, initialized, stored, sqlDb>>
  /\ InitFrame

\* the CREATE TABLE IF NOT EXISTS statements run; when they throw, the catch
\* clears useNative and goes on to loadFallback()
InitCreate(i) ==
  /\ tasks[i].pc = "create"
  /\ IF sqlDb.broken
     THEN /\ useNative' = FALSE
          /\ tasks' = [tasks EXCEPT ![i].err = TRUE, ![i].pc = "get"]
          /\ UNCHANGED sqlDb
     ELSE /\ sqlDb' = createNativeTables(sqlDb)
          /\ tasks' = [tasks EXCEPT ![i].pc = "finish"]
          /\ UNCHANGED useNative
  /\ UNCHANGED <<initialized, stored>>
  /\ InitFrame

\* loadFallback: storage.getItem resolves
InitGet(i) ==
  /\ tasks[i].pc = "get"
  /\ tasks' = [tasks EXCEPT ![i].val = stored, ![i].pc = "norm"]
  /\ UNCHANGED <<useNative, initialized, stored, sqlDb>>
  /\ InitFrame

\* loadFallback writes the initial or the normalized document back
InitNorm(i) ==
  /\ tasks[i].pc = "norm"
  /\ stored' = loadFallback(tasks[i].val).kv
  /\ tasks' = [tasks EXCEPT ![i].db = loadFallback(tasks[i].val).db, ![i].pc = "finish"]
  /\ UNCHANGED <<useNative, initialized, sqlDb>>
  /\ InitFrame

\* initialized = true; return true
InitFinish(i) ==
  /\ tasks[i].pc = "finish"
  /\ initialized' = TRUE
  /\ tasks' = [tasks EXCEPT ![i].ret = 1, ![i].pc = "done"]
  /\ UNCHANGED <<useNative, stored, sqlDb>>
  /\ InitFrame

NextInit ==
  \/ InitIssue
  \/ \E i \in DOMAIN tasks : InitBranch(i)
  \/ \E i \in DOMAIN tasks : InitCreate(i)
  \/ \E i \in DOMAIN tasks : InitGet(i)
  \/ \E i \in DOMAIN tasks : InitNorm(i)
  \/ \E i \in DOMAIN tasks : InitFinish(i)

SpecInit == InitInit /\ [][NextInit]_vars

\* the id the next create in table t of the fallback document would return
NextIdOf(kv, t) == nextId(loadFallback(kv).db, t).n

\* the rows and the next ids of both stores
Contents(kv, sql) ==
  [rows |-> [t \in Tables |-> kv.doc[t]], next |-> [t \in Tables |-> NextIdOf(kv, t)],
   sqlRows |-> [t \in Tables |-> sql[t]], seq |-> sql.seq]

\* the engine one init_db() call selects on this device
SingleCallEngine == init_db([useNative |-> FALSE, kv |-> stored, sql |-> sqlDb], sqlDb.broken).useNative

\* every init_db() call issued has returned
AllReturned == tasks # <<>> /\ InFlight = {}

\* C18: init_db() calls, one after another or interleaved, leave every stored
\* row and every next id as they were, at every step; and when all of them have
\* returned, the engine is the one a single call selects and getStatus() reports
\* initialized = true with that backend.
C18_InitIdempotent ==
  /\ [][Contents(stored', sqlDb') = Contents(stored, sqlDb)]_vars
  /\ [](AllReturned =>
          /\ useNative = SingleCallEngine
          /\ getStatus = [initialized |-> TRUE,
                          backend |-> IF SingleCallEngine THEN "native" ELSE "fallback"]
          /\ useNative => sqlDb.created)

\* two interleaved init_db() calls have returned on a device whose CREATE TABLE
\* fails, over a fallback document that holds a row
C18_Witness ==
  /\ AllReturned
  /\ Len(tasks) = 2
  /\ tasks[2].overlap
  /\ tasks[1].err
  /\ stored.doc.events # <<>>
  /\ getStatus.backend = "fallback"

(***************************************************************************)
(* Properties of the queries.                                               *)
(***************************************************************************)
\* a friendship row between users a and b with status 'accepted' is stored
AcceptedBetween(rows, a, b) ==
  \E r \in Range(rows) :
    /\ r.status = "accepted"
    /\ (r.userId = a /\ r.friendId = b) \/ (r.userId = b /\ r.friendId = a)

\* C19 (P4): for all users A and B, getFriendsForUser(A) contains B exactly when
\* a friendship row between A and B has status 'accepted', whichever of the two
\* sent the request; so it contains B iff getFriendsForUser(B) contains A, and a
\* pending or rejected row contributes to neither list.
C19_FriendshipSymmetric ==
  \A a \in UserIds, b \in UserIds :
    LET ra == getFriendsForUser(St, a)
        rb == getFriendsForUser(St, b)
    IN ~ra.err =>
         /\ b \in Range(ra.ret) <=> AcceptedBetween(Shot(ra.st).friends, a, b)
         /\ ~rb.err
         /\ b \in Range(ra.ret) <=> a \in Range(rb.ret)

\* Scenario A: user 1 sent the request, user 2 accepted it
C19_Witness ==
  /\ lastCall.fn = "respondFriendRequest"
  /\ \E row \in Range(ActiveDb.friends) : row.userId = 1 /\ row.friendId = 2 /\ row.status = "accepted"
  /\ Len(ActiveDb.friends) = 1
  /\ getFriendsForUser(St, 1).ret = <<2>>
  /\ getFriendsForUser(St, 2).ret = <<1>>

(***************************************************************************)
(* Lists: rows are created with times in either form, then listed.          *)
(***************************************************************************)
ListTimes == {1, ZonedTime}

ListCalls ==
  {[fn |-> "createEvent", event |-> NewEvent(1, "local", t)] : t \in ListTimes}
  \cup {[fn |-> "addFreeTime", slot |-> [userId |-> 1, startTime |-> t, endTime |-> UndefNum]] : t \in ListTimes}
  \cup {[fn |-> "createRsvp", rsvp |-> [NewRsvp(1, 1, 1, Undef) EXCEPT !.createdAt = t]] : t \in ListTimes}
  \cup {[fn |-> "addNotification", note |-> [NewNote(1, "hello") EXCEPT !.timestamp = t]] : t \in ListTimes}

InitLists ==
  /\ InitCommon
  /\ nativeAvail \in BOOLEAN
  /\ opsLeft = MaxOps
  /\ remote = NoRemote
  /\ passesLeft = 0
  /\ faultsLeft = 0

UiLists == initialized /\ UiCall(ListCalls)

NextLists ==
  \/ InitDb({FALSE})
  \/ UiLists

SpecLists == InitLists /\ [][NextLists]_vars

\* the instants of the rows of a list, by the key of the list
Ascending(rows, Time(_)) ==
  \A i \in 1..Len(rows), j \in 1..Len(rows) : i < j => Instant(Time(rows[i])) <= Instant(Time(rows[j]))
Descending(rows, Time(_)) ==
  \A i \in 1..Len(rows), j \in 1..Len(rows) : i < j => Instant(Time(rows[i])) >= Instant(Time(rows[j]))

\* list holds exactly the rows of the table that pass the filter
ExactlyThe(list, rows, Filter(_)) ==
  /\ Len(list) = Len(Keep(rows, Filter))
  /\ Range(list) = Range(Keep(rows, Filter))

\* C20: in every store state the list queries return exactly the rows matching
\* their filter, in the promised order of time: getEventsForUser and
\* getFreeTimeForUser ascending by startTime, getRsvpsForEvent ascending by
\* createdAt, getRsvpsForUser and getNotificationsForUser descending by createdAt.
C20_ListsInPromisedOrder ==
  initialized =>
    \A u \in UserIds :
      LET rows == Shot(St)
          events == getEventsForUser(St, u).ret
          free == getFreeTimeForUser(St, u).ret
          forEvent == getRsvpsForEvent(St, u).ret
          forUser == getRsvpsForUser(St, u).ret
          notes == getNotificationsForUser(St, u).ret
      IN /\ ExactlyThe(events, rows.events, LAMBDA e : e.userId = u)
         /\ Ascending(events, LAMBDA e : e.startTime)
         /\ ExactlyThe(free, rows.events, LAMBDA e : e.userId = u /\ e.isEvent = 0)
         /\ Ascending(free, LAMBDA e : e.startTime)
         /\ ExactlyThe(forEvent, rows.rsvps, LAMBDA r : r.eventId = u)
         /\ Ascending(forEvent, LAMBDA r : r.createdAt)
         /\ ExactlyThe(forUser, rows.rsvps, LAMBDA r : r.inviteRecipientId = u)
         /\ Descending(forUser, LAMBDA r : r.createdAt)
         /\ ExactlyThe(notes, rows.notifications, LAMBDA n : n.userId = u)
         /\ Descending(notes, LAMBDA n : n.createdAt)

(***************************************************************************)
(* Updates and deletes by id, with ids that exist and ids that do not.      *)
(***************************************************************************)
\* the fields objects a caller of updateRsvp may pass: status is optional
RsvpFields == {[status |-> s, updatedAt |-> UndefNum] : s \in {"accepted", Undef}}

ByIdCalls(d) ==
  {[fn |-> "updateUser", id |-> i, fields |-> NewUser("bob")] : i \in Targets(d.users, "users")}
  \cup {[fn |-> "respondFriendRequest", id |-> i, accept |-> b] : i \in Targets(d.friends, "friends"), b \in BOOLEAN}
  \cup {[fn |-> "updateRsvp", id |-> i, fields |-> f] : i \in Targets(d.rsvps, "rsvps"), f \in RsvpFields}
  \cup {[fn |-> "deleteRsvp", id |-> i] : i \in Targets(d.rsvps, "rsvps")}
  \cup {[fn |-> "deleteEvent", id |-> i] : i \in Targets(d.events, "events")}

\* the table whose rows a call by id addresses
ByIdTable(fn) ==
  CASE fn = "updateUser" -> "users"
    [] fn = "respondFriendRequest" -> "friends"
    [] fn \in {"updateRsvp", "deleteRsvp"} -> "rsvps"
    [] fn = "deleteEvent" -> "events"

UiById == initialized /\ UiCall(ByIdCalls(ActiveDb))
UiInsert == initialized /\ UiCall(UiCreates)

NextById ==
  \/ InitDb({FALSE})
  \/ UiInsert
  \/ UiById

SpecById == InitStore /\ [][NextById]_vars

\* the step is a call by id, of an id that no row of the addressed table has
MissingIdStep ==
  /\ opsLeft' = opsLeft - 1
  /\ lastCall'.fn \in {"updateUser", "respondFriendRequest", "updateRsvp", "deleteRsvp", "deleteEvent"}
  /\ lastCall'.id \notin IdsIn(ActiveDb[ByIdTable(lastCall'.fn)], ByIdTable(lastCall'.fn))

\* C21: updateUser, respondFriendRequest, updateRsvp, deleteRsvp and deleteEvent
\* called with an id that no row has complete without error and leave every
\* table and every next id unchanged.
C21_MissingIdIsNoOp ==
  [][MissingIdStep => (~lastCall'.err /\ Contents(stored', sqlDb') = Contents(stored, sqlDb))]_vars

(***************************************************************************)
(* Properties of interleaved calls on the fallback document.                *)
(***************************************************************************)
\* two createEvent calls were issued on the fallback engine, both loaded the same
\* events before either saved, and both have returned
BothReadThenWrote ==
  /\ Len(tasks) = 2
  /\ InFlight = {}
  /\ \A i \in 1..2 : tasks[i].c.fn = "createEvent" /\ ~tasks[i].native
  /\ tasks[1].val.doc.events = tasks[2].val.doc.events

\* C22: the fallback engine does not exclude an operation's load from another's
\* save: when two concurrently issued createEvent calls both load the document
\* before either saves it, both complete without error and return the same id,
\* and the persisted document is the document of one of them, holding one new
\* event, not two.
C22_LastWriteWins ==
  BothReadThenWrote =>
    /\ \A i \in 1..2 : ~tasks[i].err /\ tasks[i].ret >= 1
    /\ tasks[1].ret = tasks[2].ret
    /\ stored.doc \in {tasks[1].db, tasks[2].db}
    /\ Len(stored.doc.events) = Len(tasks[1].val.doc.events) + 1

\* two overlapping createEvent calls returned and one event is stored
C22_Witness ==
  /\ BothReadThenWrote
  /\ tasks[2].overlap
  /\ Len(stored.doc.events) = 1

(***************************************************************************)
(* A record the store rejects: the backend sends an RSVP without a status.  *)
(***************************************************************************)
\* the first remote RSVP, the one that invites the user, has no status
RejectCases ==
  {[rem EXCEPT !.rsvps = [i \in DOMAIN @ |-> IF i = 1 THEN [@[i] EXCEPT !.status = Undef] ELSE @[i]]] :
     rem \in OutageCases}

InitReject ==
  /\ InitCommon
  /\ nativeAvail \in BOOLEAN
  /\ opsLeft = 0
  /\ remote \in RejectCases
  /\ passesLeft = MaxPasses
  /\ faultsLeft = MaxFaults

SpecReject == InitReject /\ [][NextOutage]_vars

\* a pass has returned or rejected
PassEnded == pass.pc = "idle" /\ snap.ended \in {"completed", "rejected"}

\* C23: a store operation that rejects while a pass applies one remote record
\* does not keep the rest from being applied: when the pass has ended, the
\* notifications and the preferences it fetched are in the store.
C23_ItemFailuresContained ==
  PassEnded =>
    \A u \in LoggedIn : \A res \in {"notifications", "preferences"} \ snap.failed : Applied(res, u)

(***************************************************************************)
(* Overlapping passes: the timer ticks while a pass is in flight.  pass is  *)
(* the pass whose continuation runs next; tasks holds the other passes that *)
(* are suspended at an await.                                               *)
(***************************************************************************)
\* the backend holds events only
OverlapCases == {[NoRemote EXCEPT !.events = [i \in 1..k |-> RemoteEvent(i)]] : k \in 1..MaxRemote}

InitOverlap ==
  /\ InitCommon
  /\ nativeAvail \in BOOLEAN
  /\ opsLeft = MaxLocal + 1
  /\ remote \in OverlapCases
  /\ passesLeft = MaxPasses
  /\ faultsLeft = 0

\* a callback that skips its pass while one is in flight
TickStarts_WhenIdle(p) == p.pc = "idle"

\* the timer's callback calls syncFromBackend whatever the pass before it is doing
TickStarts(p) == TRUE

\* SYNC_INTERVAL has elapsed, whether or not the pass before has returned; at
\* most two passes are followed at a time
TickInFlight ==
  /\ passesLeft > 0
  /\ tasks = <<>>
  /\ passesLeft' = passesLeft - 1
  /\ \E t \in timers.active :
       /\ lastCall' = [NoCall EXCEPT !.fn = "tick", !.ret = t.handle]
       /\ IF TickStarts(pass)
          THEN /\ pass' = [NoPass EXCEPT !.pc = "fetch", !.userId = t.userId]
               /\ tasks' = IF pass.pc = "idle" THEN tasks ELSE Append(tasks, pass)
               /\ snap' = [snap EXCEPT !.before = Shot(St), !.quiet = TRUE, !.failed = {}, !.ended = "none"]
          ELSE UNCHANGED <<pass, tasks, snap>>
  /\ UNCHANGED <<nativeAvail, useNative, initialized, stored, sqlDb, clock, opsLeft, issued, remote,
                 faultsLeft, syncTimer, timers>>

\* the event loop resumes another suspended pass
ResumeOther ==
  /\ \E k \in 1..Len(tasks) :
       /\ pass' = tasks[k]
       /\ tasks' = LET rest == [i \in 1..(Len(tasks) - 1) |-> IF i < k THEN tasks[i] ELSE tasks[i + 1]]
                   IN IF pass.pc = "idle" THEN rest ELSE Append(rest, pass)
  /\ UNCHANGED <<nativeAvail, useNative, initialized, stored, sqlDb, clock, opsLeft, lastCall, issued,
                 remote, passesLeft, faultsLeft, syncTimer, timers, snap>>

NextOverlap ==
  \/ InitDb({FALSE})
  \/ UiLocal
  \/ StartAutoSync
  \/ TickInFlight
  \/ ResumeOther
  \/ Fetch
  \/ GetEvents
  \/ DeleteEvent
  \/ CreateEvent
  \/ ClearNotifications

SpecOverlap == InitOverlap /\ [][NextOverlap]_vars

\* C24: sync passes are not serialized: a tick of the timer that fires while a
\* pass is in flight starts a second pass for the same user and leaves the
\* first one in flight, so that the store operations of the two interleave.
C24_PassesNotSerialized ==
  [][(TickStep /\ pass.pc # "idle")
       => (/\ pass'.pc = "fetch"
           /\ pass'.userId = pass.userId
           /\ tasks' = Append(tasks, pass))]_vars

\* two passes are in flight, an event existed when the second began, both have
\* deleted what they found and both have inserted the remote events
C24_Witness ==
  /\ Len(tasks) = 1
  /\ tasks[1].pc = "clearNotifications"
  /\ pass.pc = "clearNotifications"
  /\ snap.before.events # <<>>
  /\ Len(OwnedBy(Now.events, 1)) = 2 * Len(remote.events)

(***************************************************************************)
(* loadFallback on any stored value.  A value is described by what          *)
(* storage.getItem returns for it: null for a missing key, a falsy value    *)
(* ('', 0, false, null), a string that JSON.parse rejected, or an object;   *)
(* of an object, whether __meta__ and __meta__.nextId are objects, the      *)
(* counters nextId holds, which tables are arrays, their rows, and which    *)
(* arrays hold a null element besides their rows.                           *)
(***************************************************************************)
StoredEvent(id) == [PriorDoc.events[1] EXCEPT !.eventId = id]

NoValue(kind) ==
  [kind |-> kind, meta |-> "absent", nextId |-> [t \in Tables |-> NoCounter],
   array |-> [t \in Tables |-> FALSE], rows |-> NoRows, holes |-> {}]

\* the stored values: the counters a document holds are those a store that
\* wrote its rows would hold
StoredValues ==
  {NoValue(kind) : kind \in {"null", "falsy", "string"}}
  \cup {[kind |-> "object", meta |-> meta,
         nextId |-> [t \in Tables |-> IF t \in counted THEN Max({PrimaryId(t, r) : r \in Range(rows[t])}) + 1
                                      ELSE NoCounter],
         array |-> [t \in Tables |-> t \notin lacking],
         rows |-> rows, holes |-> holes] :
           meta \in {"absent", "noNextId", "object"},
           counted \in {{}, {"events"}, Tables \ {"events"}, Tables},
           lacking \in {{}, {"users"}, Tables \ {"events"}, Tables},
           rows \in {[NoRows EXCEPT !.events = ev] : ev \in {<<>>, <<StoredEvent(1)>>, <<StoredEvent(1), StoredEvent(3)>>}},
           holes \in {{}, {"events"}}}

\* loadFallback(), given the value val that storage.getItem returned: the
\* document handed to the caller and the value persisted by the load.  A null
\* element of an array stays in the array; it has no id and is left out of the
\* rows here.
loadFallbackOf(val) ==
  IF val.kind \in {"null", "falsy"}
  THEN [db |-> EmptyDoc, kv |-> [present |-> TRUE, doc |-> EmptyDoc]]
  ELSE LET isObject == val.kind = "object"
           counter(t) == IF isObject /\ val.meta = "object" THEN val.nextId[t] ELSE NoCounter
           table(t) == IF isObject /\ val.array[t] THEN val.rows[t] ELSE <<>>
           \* Object.keys(null) throws inside the forEach: the catch sets the counter to 1
           throws(t) == isObject /\ val.array[t] /\ t \in val.holes
           given == [nextId |-> [t \in Tables |-> counter(t)],
                     users |-> table("users"), friends |-> table("friends"), rsvps |-> table("rsvps"),
                     user_prefs |-> table("user_prefs"), events |-> table("events"),
                     notifications |-> table("notifications")]
           normalized == [Normalized(given) EXCEPT !.nextId =
                            [t \in Tables |-> IF counter(t) = NoCounter /\ throws(t) THEN 1 ELSE @[t]]]
       IN [db |-> normalized, kv |-> [present |-> TRUE, doc |-> normalized]]

InitLoad ==
  /\ nativeAvail = FALSE
  /\ useNative = FALSE
  /\ initialized = FALSE
  /\ stored \in StoredValues
  /\ sqlDb = EmptySql
  /\ clock = 0
  /\ opsLeft = MaxLocal
  /\ lastCall = NoCall
  /\ issued = [t \in Tables |-> {}]
  /\ tasks = <<>>
  /\ remote = NoRemote
  /\ pass = NoPass
  /\ passesLeft = 0
  /\ faultsLeft = 0
  /\ syncTimer = NullNum
  /\ timers = NoTimers
  /\ snap = NoSnap

\* the first load of the process, by init_db() on a device without the native
\* module; snap.before keeps the value that was stored
LoadStored ==
  /\ ~initialized
  /\ stored' = loadFallbackOf(stored).kv
  /\ initialized' = TRUE
  /\ lastCall' = [NoCall EXCEPT !.fn = "loadFallback"]
  /\ snap' = [NoSnap EXCEPT !.before = stored]
  /\ UNCHANGED <<nativeAvail, useNative, sqlDb, clock, opsLeft, issued, tasks, remote, pass,
                 passesLeft, faultsLeft, syncTimer, timers>>

NextLoad == LoadStored \/ UiInsert

SpecLoad == InitLoad /\ [][NextLoad]_vars

\* the step is the load of the stored value
LoadStep == ~initialized /\ initialized'

\* C25: whatever is stored under the key, loadFallback returns and persists a
\* document in which the next id handed out for each table is at least 1 and
\* greater than every primary id in that table.
C25_LoadRepairsEveryValue ==
  [][LoadStep => \A t \in Tables :
                   /\ NextIdOf(stored', t) >= 1
                   /\ \A r \in Range(stored'.doc[t]) : NextIdOf(stored', t) > PrimaryId(t, r)]_vars

(***************************************************************************)
(* The persisted document under interleaved calls.                          *)
(***************************************************************************)
\* the primary ids of the rows of table t of document doc
PrimaryIds(doc, t) == {PrimaryId(t, r) : r \in Range(doc[t])}

\* C26: in every persisted state of the fallback document that interleaved
\* store operations reach from an empty store, the primary ids within each
\* table are pairwise distinct, a table's counter, when present, is greater
\* than every primary id of the table, and user_prefs holds at most one row
\* per userId.
C26_DocumentWellFormed ==
  /\ \A t \in Tables :
       /\ Cardinality(PrimaryIds(stored.doc, t)) = Len(stored.doc[t])
       /\ stored.doc.nextId[t] # NoCounter => \A id \in PrimaryIds(stored.doc, t) : stored.doc.nextId[t] > id
  /\ \A u \in UserIds : Len(Keep(stored.doc.user_prefs, LAMBDA p : p.userId = u)) <= 1

\* two overlapping setUserPreferences calls for one user have returned on the
\* fallback engine and the document holds the user's one row
C26_Witness ==
  /\ Len(tasks) = 2
  /\ InFlight = {}
  /\ \A i \in 1..2 : tasks[i].c.fn = "setUserPreferences" /\ ~tasks[i].native
  /\ tasks[2].overlap
  /\ tasks[1].val.doc.user_prefs = <<>> /\ tasks[2].val.doc.user_prefs = <<>>
  /\ Len(stored.doc.user_prefs) = 1
  /\ stored.doc.nextId["user_prefs"] = 2

\* the document that call c alone leaves behind on the fallback engine after init_db()
AloneDoc(c) ==
  LET ld == loadFallback(saveFallback(EmptyDoc))
      m == FbBody(c, ld.db, clock)
  IN IF m.save THEN m.db ELSE ld.kv.doc

\* the read-only calls among the interleaved ones
ConcReads == {c \in ConcCalls : c.fn = "getEventsForUser"}

\* C27: a read-only operation never changes the persisted rows or counters:
\* when a read and a mutation issued concurrently on the fallback engine have
\* both returned, the persisted document is the one the mutation alone produces.
C27_ReadsChangeNothing ==
  \A i \in DOMAIN tasks, j \in DOMAIN tasks :
    (/\ Len(tasks) = 2
     /\ InFlight = {}
     /\ ~tasks[i].native /\ ~tasks[j].native
     /\ tasks[i].c \in ConcReads
     /\ tasks[j].c \notin ConcReads)
    => stored.doc = AloneDoc(tasks[j].c)

(***************************************************************************)
(* The six fetches of a pass settle one by one, in any order, and a fetch   *)
(* may never settle.                                                        *)
(***************************************************************************)
InitOrder ==
  /\ InitCommon
  /\ nativeAvail \in BOOLEAN
  /\ opsLeft = 0
  /\ remote \in OutageCases
  /\ passesLeft = MaxPasses
  /\ faultsLeft = MaxFaults

\* the name of a resource's result among the six of the destructuring
GotKey(res) == IF res = "users" THEN "user" ELSE res

\* a combinator that lets the pass go on at the first settled fetch
AllSettled_Any(settled) == settled # {}

\* Promise.all resolves when every one of the six caught fetches has settled
AllSettled(settled) == settled = Resources

\* one fetch of the pass settles: fulfilled, or rejected and caught to its default
FetchSettles ==
  /\ pass.pc = "fetch"
  /\ \E res \in Resources \ pass.settled :
       \E failed \in {{}} \cup (IF faultsLeft > 0 THEN {{res}} ELSE {}) :
         LET p == [pass EXCEPT !.settled = @ \cup {res},
                               !.got[GotKey(res)] = Fetched(remote, failed)[GotKey(res)]]
         IN /\ pass' = IF AllSettled(p.settled) THEN ToUser(p) ELSE p
            /\ snap' = [snap EXCEPT !.failed = @ \cup failed]
            /\ faultsLeft' = IF failed = {} THEN faultsLeft ELSE faultsLeft - 1
  /\ UNCHANGED <<nativeAvail, useNative, initialized, stored, sqlDb, clock, opsLeft, lastCall, issued,
                 tasks, remote, passesLeft, syncTimer, timers>>

\* init_db(), once, before the sync is started
FirstInit == ~initialized /\ InitDb({FALSE})

NextOrder ==
  \/ FirstInit
  \/ StartPass
  \/ FetchSettles
  \/ GetUser
  \/ PutUser
  \/ GetEvents
  \/ DeleteEvent
  \/ CreateEvent
  \/ GetFriends
  \/ SendFriendRequest
  \/ GetFriendRequests
  \/ RespondFriendRequest
  \/ GetRsvps
  \/ CreateRsvp
  \/ UpdateRsvp
  \/ ClearNotifications
  \/ AddNotification
  \/ SetUserPreferences

SpecOrder == InitOrder /\ [][NextOrder]_vars

\* the place of a step of the pass in the order user, events, friends, RSVPs,
\* notifications, preferences
Stage(pc) ==
  CASE pc = "fetch" -> 0
    [] pc \in {"getUser", "putUser"} -> 1
    [] pc \in {"getEvents", "deleteEvent", "createEvent"} -> 2
    [] pc \in {"getFriends", "sendFriendRequest", "getFriendRequests", "respondFriendRequest"} -> 3
    [] pc \in {"getRsvps", "createRsvp", "updateRsvp"} -> 4
    [] pc \in {"clearNotifications", "addNotification"} -> 5
    [] pc = "setUserPreferences" -> 6
    [] OTHER -> 7

\* the table the steps of a stage write
StageTable(stage) ==
  CASE stage = 1 -> "users"
    [] stage = 2 -> "events"
    [] stage = 3 -> "friends"
    [] stage = 4 -> "rsvps"
    [] stage = 5 -> "notifications"
    [] stage = 6 -> "user_prefs"
    [] OTHER -> "none"

\* C28: within a pass no store operation is issued until all six fetches have
\* settled, so a pass with a fetch that never settles writes nothing; the
\* results are then applied in the order user, events, friends, RSVPs,
\* notifications, preferences, one store operation at a time, each changing
\* the table of its resource only.
C28_FetchThenApplyInOrder ==
  /\ [](pass.pc \notin {"idle", "fetch"} => pass.settled = Resources)
  /\ [][(initialized /\ (pass.pc \in {"idle", "fetch"} \/ pass.settled # Resources))
          => UNCHANGED <<useNative, stored, sqlDb>>]_vars
  /\ [][(pass.pc # "idle" /\ pass'.pc # "idle") => Stage(pass'.pc) >= Stage(pass.pc)]_vars
  /\ [][\A t \in Tables : t # StageTable(Stage(pass.pc)) => Shot(St)'[t] = Shot(St)[t]]_vars

\* a pass whose fetches settled one by one, one of them rejected, has applied
\* the five others, rows of every one of them, in order to the end
C28_Witness ==
  /\ Settled
  /\ Cardinality(snap.failed) = 1
  /\ \A t \in Tables \ {"user_prefs"} : Now[t] # <<>>
  /\ \A res \in Resources \ snap.failed : Applied(res, 1)

\* stopAutoSync() was the last call of the sync module
Stopped == lastCall.fn = "stopAutoSync"

\* C29: once stopAutoSync() has returned, the sync engine writes nothing to
\* the store and starts no pass until startAutoSync is called again, a pass
\* that was in flight at the stop included.
C29_NoWritesAfterStop ==
  [][(Stopped /\ lastCall' = lastCall /\ pass' # pass)
       => (Shot(St)' = Shot(St) /\ pass'.pc # "fetch")]_vars

(***************************************************************************)
(* The representation of the user id.  startAutoSync takes string | number  *)
(* and hands its argument to every pass as it is; the welcome screen passes *)
(* the string it read from AsyncStorage.  The device has no native module:  *)
(* the fallback engine compares ids with ===.                               *)
(***************************************************************************)
\* String(n): a value that is not === n nor any other number of the model
StringOf(n) == 100 + n

\* the values startAutoSync is called with for user 1
UserIdForms == {1, StringOf(1)}

InitForm ==
  /\ InitCommon
  /\ nativeAvail = FALSE
  /\ opsLeft = MaxLocal
  /\ remote \in OutageCases
  /\ passesLeft = MaxPasses
  /\ faultsLeft = 0

\* startAutoSync(userId)'s immediate pass or a tick of its timer
StartPassAs ==
  /\ initialized
  /\ \E userId \in UserIdForms : BeginPass(userId)
  /\ UNCHANGED <<nativeAvail, useNative, initialized, stored, sqlDb, clock, opsLeft, lastCall, issued,
                 tasks, remote, faultsLeft, syncTimer, timers>>

NextForm ==
  \/ FirstInit
  \/ UiLocal
  \/ StartPassAs
  \/ Fetch
  \/ GetUser
  \/ PutUser
  \/ GetEvents
  \/ DeleteEvent
  \/ CreateEvent
  \/ GetFriends
  \/ SendFriendRequest
  \/ GetFriendRequests
  \/ RespondFriendRequest
  \/ GetRsvps
  \/ CreateRsvp
  \/ UpdateRsvp
  \/ ClearNotifications
  \/ AddNotification
  \/ SetUserPreferences

SpecForm == InitForm /\ [][NextForm]_vars

\* C30: a pass does not depend on the representation of the user id: started
\* with the decimal string of the id it leaves what the pass started with the
\* number leaves; when it has completed, the local events and notifications of
\* the user are the remote ones and the user has one preference row.
C30_IdFormIrrelevant ==
  Settled =>
    /\ Applied("events", 1)
    /\ Applied("notifications", 1)
    /\ Len(Keep(Now.user_prefs, LAMBDA p : p.userId \in UserIdForms)) = 1

=============================================================================
